---- MODULE Spec2Model ----
(***************************************************************************)
(* A model of tib's sandbox sessions (src/tib/chroot.py) and of its VM     *)
(* session (src/tib/runner.py).                                            *)
(*                                                                         *)
(* QemuRunner is modelled as the state machine a `with QemuRunner(...)`    *)
(* statement drives: the constructor, __enter__ (emulator staging, then    *)
(* the mount loop, with its `except Exception` handler), the body of the   *)
(* with statement, and __exit__ (emulator removal, then the reversed       *)
(* unmount loop).  Every external command the code issues is one step and  *)
(* is appended, with its result, to the history `cmds`.                    *)
(*                                                                         *)
(* A command's result is "ok" (exit status 0), "nonzero" (any other exit   *)
(* status) or "oserror" (subprocess.run could not start the process and    *)
(* raised OSError).  Spec is the program on a host that starts every       *)
(* process; SpecExec is the program on a host that may fail to start one.  *)
(* KeyboardInterrupt can arrive while __enter__ stages or mounts, and in   *)
(* the body; __init__ and __exit__ are not interrupted in this model.      *)
(*                                                                         *)
(* SpecRun is a constructed QemuRunner session whose body calls run and    *)
(* run_script.  MultipassRunner is a second state machine over its own     *)
(* variables (vm_...): the constructor, __enter__ (the launch), a body     *)
(* that calls run, run_script, transfer_to, transfer_from and mount, and   *)
(* __exit__ (the delete); SpecVM and SpecVMExec are that machine on the    *)
(* two kinds of host.  ProotRunner is a third machine (pr_...): its        *)
(* constructor, __enter__, a body that calls run, enter_chroot and         *)
(* run_script, and __exit__ (the removal of the staged scripts), with      *)
(* every proot command, copy and removal appended to `pr_ops`; SpecProot.  *)
(*                                                                         *)
(* SpecExtra is a constructed QemuRunner session with additional_mounts;   *)
(* SpecReuse is a session object that the caller enters more than once.    *)
(*                                                                         *)
(* SpecMain is tib's main (src/tib/__main__.py): the check of the input    *)
(* files, then the MultipassRunner session whose body is the pipeline of   *)
(* main, statement by statement, and the return.  SpecKernel is the build  *)
(* of src/tib/kernel.py, with every command and file step appended to      *)
(* `kb_cmds`.                                                              *)
(***************************************************************************)
EXTENDS Naturals, Sequences, FiniteSets, TLC

(* ------------------------------ bounds -------------------------------- *)

\* longest caller-supplied mount_kwargs
MaxPlan == 2
\* longest caller-supplied additional_mounts
MaxExtra == 1
\* most commands of one session that end other than with status 0
MaxFail == 2
\* most run/run_script calls the body of one session makes
MaxCalls == 2
\* most with statements the caller runs on one session object
MaxSessions == 2
\* the most kernel patches one build is given
MaxPatches == 2

(* ------------------------------ values -------------------------------- *)

\* the rootfs of every session of the model is /r
\* chroot.py:46
ARCH == "aarch64"
\* Python's None, for arguments and attributes that hold a string
None == ""
\* Python's False, the initial value of _qemu_copied (chroot.py:328)
False == "False"

Reverse(s) == [k \in 1..Len(s) |-> s[Len(s) + 1 - k]]
Range(s) == {s[k] : k \in DOMAIN s}
SeqsUpTo(S, n) == UNION {[1..k -> S] : k \in 0..n}

\* the emulator paths of the model, and the two string functions the code
\* applies to them: qemu.split("-") (chroot.py:305) and os.path.basename
\* joined onto <rootfs>/usr/bin (chroot.py:335-337)
QemuPaths == {"/usr/bin/qemu-aarch64-static", "/opt/emu"}
split_dash(q) ==
    IF q = "/usr/bin/qemu-aarch64-static"
    THEN <<"/usr/bin/qemu", "aarch64", "static">>
    ELSE <<q>>
emulator_target(q) ==
    IF q = "/usr/bin/qemu-aarch64-static"
    THEN "/r/usr/bin/qemu-aarch64-static"
    ELSE "/r/usr/bin/emu"
\* shutil.which(f"qemu-{arch}-static"): the path found, or None
which(arch, found) ==
    IF found /\ arch = ARCH THEN "/usr/bin/qemu-aarch64-static" ELSE None

EmuTargets == {emulator_target(q) : q \in QemuPaths}

\* one entry of a mount plan: the keyword arguments of mount()
MountKw(source, target, type_, options) ==
    [source |-> source, target |-> target, type_ |-> type_, options |-> options]

\* caller-supplied mounts
UserTargets == {"/r/mnt/a", "/r/mnt/b"}
UserMounts == {MountKw("none", t, "tmpfs", {}) : t \in UserTargets}
ExtraMounts == {MountKw("/src", "/r/mnt/x", None, {"bind"})}

\* userspec strings, as their characters
Userspecs == {<<>>, <<"u", ":", "g">>, <<"u", "g">>, <<"u", "-", "x", ":", "g">>}

Results == {"ok", "nonzero", "oserror"}

(* ------------------------------ state --------------------------------- *)

VARIABLES
    pc,            \* where the with statement is
    host,          \* what the constructor was called with and found on the host
    spawn_fails,   \* whether the host may fail to start a process
    qemu,          \* self.qemu
    mount_kwargs,  \* self.mount_kwargs
    userspec,      \* self.userspec
    sudo,          \* self.sudo
    _qemu_copied,  \* self._qemu_copied
    _mounted,      \* self._mounted
    target_isfile, \* os.path.isfile(target) as __enter__ found it
    i,             \* entries of mount_kwargs the mount loop has taken
    todo,          \* what reversed(self._mounted) has yet to yield
    exc,           \* the exception in flight ("None" when there is none)
    exit_from,     \* who called __exit__: "enter" (the handler) or "with"
    exit_state,    \* "notrun", "running", "returned" or "raised"
    outcome,       \* what the caller of the with statement observes
    log,           \* the warnings and errors handed to the logger
    cmds,          \* every external command issued, in order, with its result
    call_results,  \* what run/run_script have returned to the body, in order
    vm_pc,         \* where the `with MultipassRunner(...)` statement is
    vm_self,       \* the attributes of the MultipassRunner
    vm_exc,        \* the exception in flight in the VM session
    vm_outcome,    \* what the caller of the VM's with statement observes
    vm_log,        \* what the VM session handed to the logger
    vm_cmds,       \* every multipass command issued, in order, with its result
    pr_pc,         \* where the `with ProotRunner(...)` statement is
    pr_self,       \* the attributes of the ProotRunner, and platform.machine()
    _scripts,      \* ProotRunner._scripts
    pr_exc,        \* the exception in flight in the proot session
    pr_outcome,    \* what the caller of the proot with statement observes
    pr_log,        \* what the proot session handed to the logger
    pr_ops,        \* every command, copy and removal of the proot session
    main_pc,       \* where tib's main is
    main_args,     \* what main was called with, and which input files exist
    main_i,        \* how many entries the loop main is in has taken
    main_result,   \* what the caller of main observes
    kb_pc,         \* where kernel.build is
    kb_args,       \* what kernel.build was called with
    kb_cmds,       \* every command and file step of the build, with its result
    kb_result      \* what the caller of kernel.build observes

\* the variables of the MultipassRunner session
vmvars == <<vm_pc, vm_self, vm_exc, vm_outcome, vm_log, vm_cmds>>

\* the variables of the ProotRunner session
prvars == <<pr_pc, pr_self, _scripts, pr_exc, pr_outcome, pr_log, pr_ops>>

\* the variables of tib's main
mainvars == <<main_pc, main_args, main_i, main_result>>

\* the variables of kernel.build
kbvars == <<kb_pc, kb_args, kb_cmds, kb_result>>

vars == <<pc, host, spawn_fails, qemu, mount_kwargs, userspec, sudo,
          _qemu_copied, _mounted, target_isfile, i, todo, exc, exit_from,
          exit_state, outcome, log, cmds, call_results, vmvars, prvars,
          mainvars, kbvars>>

\* main and kernel.build before they are called
NoArgs == [called |-> FALSE]

\* a ProotRunner that has not been constructed
NoProot == [rootfs |-> None, arch |-> None, machine |-> None]

\* a MultipassRunner that has not been constructed
NoVm == [_name |-> None, _verbose |-> 0, no_cleanup |-> FALSE]

NoCall == [rootfs_exists |-> FALSE, rootfs_isdir |-> FALSE, arch |-> None,
           qemu |-> None, which_found |-> FALSE, qemu_isfile |-> FALSE,
           qemu_exec |-> FALSE, userspec |-> <<>>, user |-> None,
           called |-> FALSE]

InitCommon ==
    /\ pc = "new"
    /\ host = NoCall
    /\ qemu = None
    /\ mount_kwargs = <<>>
    /\ userspec = <<>>
    /\ sudo = FALSE
    /\ _qemu_copied = False
    /\ _mounted = <<>>
    /\ target_isfile = FALSE
    /\ i = 0
    /\ todo = <<>>
    /\ exc = "None"
    /\ exit_from = "none"
    /\ exit_state = "notrun"
    /\ outcome = "pending"
    /\ log = <<>>
    /\ cmds = <<>>
    /\ call_results = <<>>
    /\ vm_pc = "new"
    /\ vm_self = NoVm
    /\ vm_exc = "None"
    /\ vm_outcome = "pending"
    /\ vm_log = <<>>
    /\ vm_cmds = <<>>
    /\ pr_pc = "new"
    /\ pr_self = NoProot
    /\ _scripts = <<>>
    /\ pr_exc = "None"
    /\ pr_outcome = "pending"
    /\ pr_log = <<>>
    /\ pr_ops = <<>>
    /\ main_pc = "new"
    /\ main_args = NoArgs
    /\ main_i = 0
    /\ main_result = "pending"
    /\ kb_pc = "new"
    /\ kb_args = NoArgs
    /\ kb_cmds = <<>>
    /\ kb_result = "pending"

Init == InitCommon /\ spawn_fails = FALSE
InitExec == InitCommon /\ spawn_fails = TRUE

(* --------------------------- commands --------------------------------- *)

\* run(): the command as issued, `sudo` prefixed when asked, and its result
run(prog, source, target, type_, options, sudo_, rc) ==
    [prog |-> prog, source |-> source, target |-> target, type_ |-> type_,
     options |-> options, sudo |-> sudo_, rc |-> rc]

\* mount(): mount [-t type_] [-o options] source target
mount(source, target, type_, options, sudo_, rc) ==
    run("mount", source, target, type_, options, sudo_, rc)

\* umount(): umount target
umount(target, sudo_, rc) == run("umount", None, target, None, {}, sudo_, rc)

\* CompletedProcess.check_returncode(): raises on a status other than 0
check_returncode(rc) == IF rc = "ok" THEN "None" ELSE "CalledProcessError"

\* what a command started through subprocess.run raises by itself
spawn_error(rc) == IF rc = "oserror" THEN "OSError" ELSE "None"

NFail(history) == Cardinality({k \in DOMAIN history : history[k].rc # "ok"})

\* the results the host can give the next command
Possible(rc) ==
    /\ rc = "oserror" => spawn_fails
    /\ rc # "ok" => NFail(cmds) < MaxFail

(* ------------------------- default_mount_kwargs ----------------------- *)

RestrictedOptions == {"ro", "nosuid", "nodev", "noexec", "relatime"}
PtsOptions == {"rw", "nosuid", "noexec", "relatime", "gid=5", "mode=620",
               "ptmxmode=000"}

\* a rule that takes the first resolv.conf that exists, symlink or not
resolv_target_ignoring_link(run_exists, etc_exists, etc_islink) ==
    IF run_exists THEN "/r/run/resolvconf/resolv.conf"
    ELSE IF etc_exists THEN "/r/etc/resolv.conf"
    ELSE None

\* the destination of the resolv.conf bind, None when there is none
resolv_target(run_exists, etc_exists, etc_islink) ==
    IF run_exists /\ etc_islink THEN "/r/run/resolvconf/resolv.conf"
    ELSE IF etc_exists /\ ~etc_islink THEN "/r/etc/resolv.conf"
    ELSE None

\* the order the docstring lists: the resolv.conf bind before /tmp
default_mount_kwargs_as_documented(run_exists, etc_exists, etc_islink) ==
    LET rt == IF run_exists /\ etc_islink THEN "/r/run/resolvconf/resolv.conf"
              ELSE IF etc_exists /\ ~etc_islink THEN "/r/etc/resolv.conf"
              ELSE None
        head == << MountKw("sysfs", "/r/sys", "sysfs", RestrictedOptions),
                   MountKw("proc", "/r/proc", "proc", RestrictedOptions),
                   MountKw("/dev", "/r/dev", None, {"bind", "ro"}),
                   MountKw("devpts", "/r/dev/pts", "devpts", PtsOptions) >>
        tmpfs == << MountKw("tmpfs", "/r/tmp", "tmpfs", {}) >>
    IN  IF rt # None
        THEN head \o << MountKw("/etc/resolv.conf", rt, None, {"bind", "ro"}) >>
                  \o tmpfs
        ELSE head \o tmpfs

default_mount_kwargs(run_exists, etc_exists, etc_islink) ==
    LET rt == resolv_target(run_exists, etc_exists, etc_islink)
        list_of_kwargs ==
            << MountKw("sysfs", "/r/sys", "sysfs", RestrictedOptions),
               MountKw("proc", "/r/proc", "proc", RestrictedOptions),
               MountKw("/dev", "/r/dev", None, {"bind", "ro"}),
               MountKw("devpts", "/r/dev/pts", "devpts", PtsOptions),
               MountKw("tmpfs", "/r/tmp", "tmpfs", {}) >>
    IN  IF rt # None
        THEN Append(list_of_kwargs,
                    MountKw("/etc/resolv.conf", rt, None, {"bind", "ro"}))
        ELSE list_of_kwargs

\* the warning default_mount_kwargs logs when it binds no resolv.conf
resolv_warning(run_exists, etc_exists, etc_islink) ==
    IF resolv_target(run_exists, etc_exists, etc_islink) = None
    THEN << [level |-> "warning",
             msg |-> "resolv.conf not found. network may not be reachable",
             formats |-> TRUE] >>
    ELSE <<>>

(* --------------------------- QemuRunner.__init__ ---------------------- *)

\* getpass.getuser(): who constructs the session
Users == {"root", "builder"}

\* a session that never elevates on its own
session_sudo_never(user) == FALSE

\* self.sudo: the session elevates its commands unless root constructs it
session_sudo(user) == "root" # user

\* the constructor calls of the model: the arguments, what the checks find on
\* the host, and the invoking user
CtorCalls ==
    {h \in [rootfs_exists : BOOLEAN, rootfs_isdir : BOOLEAN,
            arch : {None, ARCH}, qemu : QemuPaths \cup {None},
            which_found : BOOLEAN, qemu_isfile : BOOLEAN,
            qemu_exec : BOOLEAN, userspec : Userspecs, user : Users,
            called : {TRUE}] :
        \* a directory exists
        /\ h.rootfs_isdir => h.rootfs_exists
        \* shutil.which is consulted only when no qemu is given
        /\ h.qemu # None => ~h.which_found}

\* self.qemu as the constructor resolves it (chroot.py:308-311)
resolved_qemu(h) ==
    IF h.qemu # None THEN h.qemu ELSE which(h.arch, h.which_found)

\* the checks before the mount plan is built; "None" when all pass
precheck_error(h) ==
    IF ~h.rootfs_exists THEN "FileNotFoundError"
    ELSE IF ~h.rootfs_isdir THEN "NotADirectoryError"
    ELSE IF h.arch = None /\ h.qemu = None THEN "ValueError"
    ELSE IF h.arch = None /\ Len(split_dash(h.qemu)) < 2 THEN "IndexError"
    ELSE IF h.arch # None /\ h.qemu # None THEN "ValueError"
    ELSE IF resolved_qemu(h) = None THEN "TypeError"
    ELSE IF ~h.qemu_isfile THEN "FileNotFoundError"
    ELSE IF ~h.qemu_exec THEN "PermissionError"
    ELSE "None"

\* a userspec check that looks for the colon only
userspec_error_colon_only(us) ==
    IF us # <<>> /\ ":" \notin Range(us) THEN "ValueError" ELSE "None"

\* the userspec check, made after the mount plan is built
userspec_error(us) ==
    IF us # <<>> /\ (":" \notin Range(us) \/ "-" \in Range(us))
    THEN "ValueError"
    ELSE "None"

init_error(h) ==
    IF precheck_error(h) # "None" THEN precheck_error(h)
    ELSE userspec_error(h.userspec)

\* a plan that puts the additional mounts in front of the base plan
plan_of_extra_first(mk, extra, run_exists, etc_exists, etc_islink) ==
    extra \o (IF mk # <<>> THEN mk
              ELSE default_mount_kwargs(run_exists, etc_exists, etc_islink))

\* self.mount_kwargs (chroot.py:316-321)
plan_of(mk, extra, run_exists, etc_exists, etc_islink) ==
    (IF mk # <<>> THEN mk
     ELSE default_mount_kwargs(run_exists, etc_exists, etc_islink)) \o extra

\* the whole constructor
Construct ==
    /\ pc = "new"
    /\ \E h \in CtorCalls, mk \in SeqsUpTo(UserMounts, MaxPlan),
          extra \in SeqsUpTo(ExtraMounts, MaxExtra),
          run_exists \in BOOLEAN, etc_exists \in BOOLEAN,
          etc_islink \in BOOLEAN :
        \* the layout is read only when the default plan is built
        /\ mk # <<>> => ~run_exists /\ ~etc_exists /\ ~etc_islink
        /\ host' = h
        /\ log' = IF precheck_error(h) = "None" /\ mk = <<>>
                  THEN log \o resolv_warning(run_exists, etc_exists, etc_islink)
                  ELSE log
        /\ IF init_error(h) # "None"
           THEN /\ pc' = "init_raised"
                /\ outcome' = init_error(h)
                /\ UNCHANGED <<qemu, mount_kwargs, userspec, sudo>>
           ELSE /\ pc' = "enter"
                /\ qemu' = resolved_qemu(h)
                /\ mount_kwargs' = plan_of(mk, extra, run_exists, etc_exists,
                                           etc_islink)
                /\ userspec' = h.userspec
                /\ sudo' = session_sudo(h.user)
                /\ UNCHANGED outcome
    /\ UNCHANGED <<spawn_fails, _qemu_copied, _mounted, target_isfile, i, todo,
                   exc, exit_from, exit_state, cmds>>
    /\ UNCHANGED <<call_results, vmvars, prvars, mainvars, kbvars>>

(* --------------------------- QemuRunner.__enter__ --------------------- *)

\* a staging that always copies, overwriting an existing file
stage_by_bind_never(isfile) == FALSE

\* whether __enter__ bind-mounts the emulator rather than copying it
stage_by_bind(isfile) == isfile

\* `except Exception`: every exception of the model but KeyboardInterrupt
\* (a BaseException) is an Exception
caught_by_enter(e) == e # "KeyboardInterrupt"

\* a command whose exit status nobody checks
checked_ignoring_status(rc) == spawn_error(rc)

\* what a checked command raises: OSError when it could not be started,
\* else what check_returncode() raises
checked(rc) == IF spawn_error(rc) # "None" THEN spawn_error(rc)
               ELSE check_returncode(rc)

ErrorRecord(msg, formats) == [level |-> "error", msg |-> msg, formats |-> formats]

\* an exception e raised inside the try block of __enter__
RaiseInEnter(e) ==
    /\ exc' = e
    /\ IF caught_by_enter(e)
       THEN pc' = "except" /\ UNCHANGED outcome
       ELSE pc' = "done" /\ outcome' = e

\* whether the emulator's path in the rootfs is a file after the commands of
\* `history`, the last of them first: a copy that exited 0 created it, a
\* removal that exited 0 deleted it, a bind mount found it there and an
\* unmount leaves it; a first copy that failed was made because it was not
\* there
RECURSIVE isfile_after(_)
isfile_after(history) ==
    IF history = <<>> THEN FALSE
    ELSE LET c == history[Len(history)]
             before == SubSeq(history, 1, Len(history) - 1)
         IN  IF c.prog = "cp" /\ c.target \in EmuTargets /\ c.rc = "ok"
             THEN TRUE
             ELSE IF c.prog = "rm" /\ c.rc = "ok" THEN FALSE
             ELSE IF c.prog = "mount" /\ c.target \in EmuTargets THEN TRUE
             ELSE isfile_after(before)

\* os.path.isfile(target): anything in a rootfs the session has not touched
\* yet, else what the session's own commands have left there
Isfile ==
    IF cmds = <<>> THEN BOOLEAN ELSE {isfile_after(cmds)}

\* the staging of the emulator: bind mount over an existing file, else copy
EnterStage ==
    /\ pc = "enter"
    /\ \E isfile \in Isfile, rc \in Results :
        LET target == emulator_target(qemu) IN
        /\ Possible(rc)
        /\ target_isfile' = isfile
        /\ IF stage_by_bind(isfile)
           THEN /\ cmds' = Append(cmds, mount(qemu, target, None,
                                              {"bind", "ro"}, sudo, rc))
                /\ UNCHANGED _qemu_copied
                /\ IF checked(rc) = "None"
                   THEN /\ _mounted' = Append(_mounted, target)
                        /\ pc' = "mounts"
                        /\ UNCHANGED <<exc, outcome>>
                   ELSE /\ RaiseInEnter(checked(rc))
                        /\ UNCHANGED _mounted
           ELSE /\ cmds' = Append(cmds, run("cp", qemu, target, None, {},
                                            sudo, rc))
                /\ UNCHANGED _mounted
                /\ IF spawn_error(rc) = "None"
                   THEN /\ _qemu_copied' = target
                        /\ pc' = "mounts"
                        /\ UNCHANGED <<exc, outcome>>
                   ELSE /\ RaiseInEnter(spawn_error(rc))
                        /\ UNCHANGED _qemu_copied
    /\ UNCHANGED <<host, spawn_fails, qemu, mount_kwargs, userspec, sudo, i,
                   todo, exit_from, exit_state, log>>
    /\ UNCHANGED <<call_results, vmvars, prvars, mainvars, kbvars>>

\* self._mounted after a mount of `target` that raised nothing
remember_mounted(mounted, target) == Append(mounted, target)

\* one iteration of the mount loop
EnterMount ==
    /\ pc = "mounts"
    /\ i < Len(mount_kwargs)
    /\ \E rc \in Results :
        LET kwargs == mount_kwargs[i + 1] IN
        /\ Possible(rc)
        /\ cmds' = Append(cmds, mount(kwargs.source, kwargs.target,
                                      kwargs.type_, kwargs.options, sudo, rc))
        /\ i' = i + 1
        /\ IF checked(rc) = "None"
           THEN /\ _mounted' = remember_mounted(_mounted, kwargs.target)
                /\ UNCHANGED <<pc, exc, outcome>>
           ELSE /\ RaiseInEnter(checked(rc))
                /\ UNCHANGED _mounted
    /\ UNCHANGED <<host, spawn_fails, qemu, mount_kwargs, userspec, sudo,
                   _qemu_copied, target_isfile, todo, exit_from, exit_state,
                   log>>
    /\ UNCHANGED <<call_results, vmvars, prvars, mainvars, kbvars>>

\* the mount loop is exhausted: __enter__ returns self
EnterReturn ==
    /\ pc = "mounts"
    /\ i = Len(mount_kwargs)
    /\ pc' = "body"
    /\ UNCHANGED <<host, spawn_fails, qemu, mount_kwargs, userspec, sudo,
                   _qemu_copied, _mounted, target_isfile, i, todo, exc,
                   exit_from, exit_state, outcome, log, cmds>>
    /\ UNCHANGED <<call_results, vmvars, prvars, mainvars, kbvars>>

\* KeyboardInterrupt while __enter__ stages or mounts
EnterInterrupt ==
    /\ pc \in {"enter", "mounts"}
    /\ RaiseInEnter("KeyboardInterrupt")
    /\ UNCHANGED <<host, spawn_fails, qemu, mount_kwargs, userspec, sudo,
                   _qemu_copied, _mounted, target_isfile, i, todo, exit_from,
                   exit_state, log, cmds>>
    /\ UNCHANGED <<call_results, vmvars, prvars, mainvars, kbvars>>

\* the handler of __enter__: log, then call self.__exit__(None, None, None)
EnterExcept ==
    /\ pc = "except"
    /\ log' = Append(log, ErrorRecord("__enter__ had error. Cleaning up.", FALSE))
    /\ exit_from' = "enter"
    /\ pc' = "exit"
    /\ UNCHANGED <<host, spawn_fails, qemu, mount_kwargs, userspec, sudo,
                   _qemu_copied, _mounted, target_isfile, i, todo, exc,
                   exit_state, outcome, cmds>>
    /\ UNCHANGED <<call_results, vmvars, prvars, mainvars, kbvars>>

(* --------------------------- the with body ---------------------------- *)

\* the body of the with statement ends: normally ("None"), with an
\* ordinary error, or with KeyboardInterrupt; the with statement then
\* calls __exit__
Body ==
    /\ pc = "body"
    /\ \E e \in {"None", "RuntimeError", "KeyboardInterrupt"} : exc' = e
    /\ exit_from' = "with"
    /\ pc' = "exit"
    /\ UNCHANGED <<host, spawn_fails, qemu, mount_kwargs, userspec, sudo,
                   _qemu_copied, _mounted, target_isfile, i, todo, exit_state,
                   outcome, log, cmds>>
    /\ UNCHANGED <<call_results, vmvars, prvars, mainvars, kbvars>>

(* --------------------------- QemuRunner.__exit__ ---------------------- *)

\* a teardown that walks self._mounted front to back
teardown_order_forward(mounted) == mounted

\* the order in which __exit__ unmounts self._mounted
teardown_order(mounted) == Reverse(mounted)

\* the exc_type __exit__ is called with
exc_type == IF exit_from = "with" THEN exc ELSE "None"

\* __exit__ raises e: it propagates to whoever called __exit__
RaiseInExit(e) ==
    /\ exit_state' = "raised"
    /\ pc' = "done"
    /\ outcome' = e

\* the start of __exit__: log an error in flight, remove a copied emulator,
\* and take the reversed iterator of self._mounted
ExitBegin ==
    /\ pc = "exit"
    /\ log' = IF exc_type # "None"
              THEN Append(log, ErrorRecord("had error. Cleaning up.", TRUE))
              ELSE log
    /\ IF _qemu_copied # False
       THEN \E rc \in Results :
            /\ Possible(rc)
            /\ cmds' = Append(cmds, run("rm", None, _qemu_copied, None, {},
                                        sudo, rc))
            /\ IF spawn_error(rc) = "None"
               THEN /\ pc' = "umounts"
                    /\ exit_state' = "running"
                    /\ todo' = teardown_order(_mounted)
                    /\ UNCHANGED outcome
               ELSE /\ RaiseInExit(spawn_error(rc))
                    /\ UNCHANGED todo
       ELSE /\ pc' = "umounts"
            /\ exit_state' = "running"
            /\ todo' = teardown_order(_mounted)
            /\ UNCHANGED <<outcome, cmds>>
    /\ UNCHANGED <<host, spawn_fails, qemu, mount_kwargs, userspec, sudo,
                   _qemu_copied, _mounted, target_isfile, i, exc, exit_from>>
    /\ UNCHANGED <<call_results, vmvars, prvars, mainvars, kbvars>>

\* one iteration of the unmount loop
ExitUmount ==
    /\ pc = "umounts"
    /\ todo # <<>>
    /\ \E rc \in Results :
        /\ Possible(rc)
        /\ cmds' = Append(cmds, umount(Head(todo), sudo, rc))
        /\ IF spawn_error(rc) = "None"
           THEN /\ todo' = Tail(todo)
                /\ UNCHANGED <<pc, exit_state, outcome>>
           ELSE /\ RaiseInExit(spawn_error(rc))
                /\ UNCHANGED todo
    /\ UNCHANGED <<host, spawn_fails, qemu, mount_kwargs, userspec, sudo,
                   _qemu_copied, _mounted, target_isfile, i, exc, exit_from,
                   log>>
    /\ UNCHANGED <<call_results, vmvars, prvars, mainvars, kbvars>>

\* an __exit__ that returns True for KeyboardInterrupt: the with statement
\* completes normally after a cancelled body
after_exit_swallowing(from, e) ==
    IF from = "enter" THEN e
    ELSE IF e \in {"None", "KeyboardInterrupt"} THEN "returned" ELSE e

\* what the caller observes once __exit__ has returned None: the handler of
\* __enter__ re-raises the exception it caught; the with statement lets the
\* body's exception propagate, or completes
after_exit(from, e) ==
    IF from = "enter" THEN e
    ELSE IF e = "None" THEN "returned" ELSE e

\* the unmount loop is exhausted: __exit__ returns None
ExitReturn ==
    /\ pc = "umounts"
    /\ todo = <<>>
    /\ exit_state' = "returned"
    /\ pc' = "done"
    /\ outcome' = after_exit(exit_from, exc)
    /\ UNCHANGED <<host, spawn_fails, qemu, mount_kwargs, userspec, sudo,
                   _qemu_copied, _mounted, target_isfile, i, todo, exc,
                   exit_from, log, cmds>>
    /\ UNCHANGED <<call_results, vmvars, prvars, mainvars, kbvars>>

Next ==
    \/ Construct
    \/ EnterStage
    \/ EnterMount
    \/ EnterReturn
    \/ EnterInterrupt
    \/ EnterExcept
    \/ Body
    \/ ExitBegin
    \/ ExitUmount
    \/ ExitReturn

Spec == Init /\ [][Next]_vars
SpecExec == InitExec /\ [][Next]_vars

(* ------------------------ reading the history ------------------------- *)

IsPrefix(s, t) == Len(s) <= Len(t) /\ \A k \in DOMAIN s : s[k] = t[k]
TargetsOf(history) == [k \in DOMAIN history |-> history[k].target]
IsUmount(c) == c.prog = "umount"
IsMountOk(c) == c.prog = "mount" /\ c.rc = "ok"
IsRm(c) == c.prog = "rm"
IsCp(c) == c.prog = "cp"

\* the targets unmounted so far, in the order of the unmount commands
Unmounted == TargetsOf(SelectSeq(cmds, IsUmount))
\* the targets whose mount command exited with status 0, in that order
MountedOk == TargetsOf(SelectSeq(cmds, IsMountOk))
\* the mount commands of the plan: every mount but the emulator's
IsPlanMount(c) == c.prog = "mount" /\ c.target \notin EmuTargets
IsPlanUmount(c) == c.prog = "umount" /\ c.target \notin EmuTargets
\* the staging command: the copy of the emulator, or its bind mount
IsStaging(c) == c.prog = "cp" \/ (c.prog = "mount" /\ c.target \in EmuTargets)
\* the emulator cleanup: the removal of the copy, or the unmount of the bind
IsEmuCleanup(c) == c.prog = "rm" \/ (c.prog = "umount" /\ c.target \in EmuTargets)

(* ------------------------------ C1 ------------------------------------ *)

\* C1: the unmount commands __exit__ has issued are at every moment the
\* first ones of the reverse of the successfully mounted targets, and once
\* __exit__ has returned they are exactly that reverse: mk, ..., m1.
C1_ReverseUnmountOrder ==
    /\ IsPrefix(Unmounted, Reverse(MountedOk))
    /\ exit_state = "returned" => Unmounted = Reverse(MountedOk)

\* a session that mounted at least three distinct targets and has left
C1_Witness ==
    /\ exit_state = "returned"
    /\ exit_from = "with"
    /\ Len(MountedOk) >= 3
    /\ Cardinality(Range(MountedOk)) = Len(MountedOk)
    /\ Unmounted # MountedOk

(* ------------------------------ C2 ------------------------------------ *)

\* the positions of the plan's mount commands that exited non-zero
FailedPlanMounts ==
    {k \in DOMAIN cmds : IsPlanMount(cmds[k]) /\ cmds[k].rc = "nonzero"}

\* C2: when the mount command of a plan step exits non-zero, no mount is
\* issued after it, every mount before it had succeeded, the unmounts
\* issued are those of the mounts that succeeded, in reverse (the failed
\* target is not among them), and the caller gets the mount's
\* CalledProcessError once the teardown has run.
C2_MountFailureRollsBack ==
    \A k \in FailedPlanMounts :
        /\ \A m \in DOMAIN cmds : m > k => cmds[m].prog # "mount"
        /\ \A m \in 1..(k - 1) : cmds[m].prog = "mount" => cmds[m].rc = "ok"
        /\ IsPrefix(Unmounted, Reverse(MountedOk))
        /\ pc # "body"
        /\ pc = "done" =>
             /\ exit_state = "returned"
             /\ Unmounted = Reverse(MountedOk)
             /\ Len(Unmounted) = Len(SelectSeq(SubSeq(cmds, 1, k - 1), IsMountOk))
             /\ outcome = "CalledProcessError"

\* the third mount of a plan failed after two had succeeded, and the
\* caller has the exception
C2_Witness ==
    /\ pc = "done"
    /\ \E k \in FailedPlanMounts :
         /\ Len(SelectSeq(SubSeq(cmds, 1, k - 1), IsPlanMount)) = 2
         /\ k < Len(cmds)
    /\ Len(Unmounted) >= 2

(* ------------------------------ C3 ------------------------------------ *)

\* C3: when control is back with the caller, every mount that succeeded has
\* had an unmount issued for it and a copied emulator has had a removal
\* issued for it, whichever way the session ended.
C3_NothingLeaked ==
    pc = "done" =>
        /\ \A t \in Range(MountedOk) :
             Len(SelectSeq(Unmounted, LAMBDA u : u = t))
               = Len(SelectSeq(MountedOk, LAMBDA u : u = t))
        /\ (\E k \in DOMAIN cmds : IsCp(cmds[k]) /\ cmds[k].rc = "ok")
             => \E k \in DOMAIN cmds : IsRm(cmds[k])

(* ------------------------------ C4 ------------------------------------ *)

Count(history, Test(_)) == Len(SelectSeq(history, Test))

\* C4: if the emulator target was a file when __enter__ looked, the first
\* command is the read-only bind mount of the host emulator onto it, no copy
\* and no removal is ever issued, and an __exit__ that returned has
\* unmounted it if the bind had succeeded; otherwise the first command is
\* the copy of the emulator to that path, every removal issued is of that
\* path, and an __exit__ that returned has issued exactly one (none when the
\* copy could not even be started).
C4_EmulatorStaging ==
    pc \notin {"new", "init_raised", "enter"} /\ cmds # <<>> =>
        LET target == emulator_target(qemu) IN
        IF target_isfile
        THEN /\ cmds[1] = mount(qemu, target, None, {"bind", "ro"}, sudo,
                                cmds[1].rc)
             /\ Count(cmds, IsCp) = 0
             /\ Count(cmds, IsRm) = 0
             /\ exit_state = "returned" /\ cmds[1].rc = "ok"
                  => Count(cmds, LAMBDA c : IsUmount(c) /\ c.target = target) = 1
        ELSE /\ cmds[1].prog = "cp"
             /\ cmds[1].source = qemu
             /\ cmds[1].target = target
             /\ Count(cmds, IsCp) = 1
             /\ \A k \in DOMAIN cmds : IsRm(cmds[k]) => cmds[k].target = target
             /\ \A k \in DOMAIN cmds : cmds[k].target = target
                                         => cmds[k].prog \in {"cp", "rm"}
             /\ exit_state = "returned" =>
                  Count(cmds, IsRm) = IF cmds[1].rc = "oserror" THEN 0 ELSE 1

\* a session over a pre-existing emulator file that has been left
C4_WitnessBind ==
    /\ exit_state = "returned"
    /\ target_isfile
    /\ cmds[1].rc = "ok"
    /\ Len(MountedOk) >= 2

\* a session that copied the emulator and has been left
C4_WitnessCopy ==
    /\ exit_state = "returned"
    /\ ~target_isfile
    /\ Count(cmds, IsRm) = 1
    /\ Len(MountedOk) >= 1

(* ------------------------------ C5 ------------------------------------ *)

\* whether position k of the history is preceded by the emulator cleanup
CleanupBefore(k) == \E m \in 1..(k - 1) : IsEmuCleanup(cmds[m])

\* whether the session holds a staged emulator for __exit__ to clean up
EmulatorStaged ==
    \E k \in DOMAIN cmds :
        \/ IsCp(cmds[k]) /\ cmds[k].rc # "oserror"
        \/ cmds[k].prog = "mount" /\ cmds[k].target \in EmuTargets
             /\ cmds[k].rc = "ok"

\* C5 as claimed: in both staging cases the emulator cleanup is issued
\* before the unmount of any entry of the mount plan.
C5_CleanupFirst ==
    EmulatorStaged =>
        \A k \in DOMAIN cmds : IsPlanUmount(cmds[k]) => CleanupBefore(k)

\* C5 as the code has it: the removal of a copied emulator is issued before
\* every unmount; the unmount of a bind-mounted emulator is issued after the
\* unmounts of all the plan's mounted entries, as the last unmount.
C5_CopyFirstBindLast ==
    /\ _qemu_copied # False =>
         \A k \in DOMAIN cmds : IsUmount(cmds[k]) =>
             \E m \in 1..(k - 1) : IsRm(cmds[m])
    /\ \A k \in DOMAIN cmds :
         IsUmount(cmds[k]) /\ cmds[k].target \in EmuTargets =>
             /\ k = Len(cmds)
             /\ Count(SubSeq(cmds, 1, k - 1), IsPlanUmount)
                  = Count(cmds, LAMBDA c : IsPlanMount(c) /\ c.rc = "ok")

\* a bind-mounted emulator was unmounted after two entries of the plan
C5_Witness ==
    /\ exit_state = "returned"
    /\ target_isfile
    /\ Count(cmds, IsPlanUmount) >= 2
    /\ IsEmuCleanup(cmds[Len(cmds)])

\* a copied emulator was removed, and two entries then unmounted
C5_WitnessCopy ==
    /\ exit_state = "returned"
    /\ Count(cmds, IsRm) = 1
    /\ Count(cmds, IsPlanUmount) >= 2

(* ------------------------------ C6 ------------------------------------ *)

\* C6: no failure of a teardown step reaches the caller, and an __exit__
\* that ran has attempted the unmount of every entry of self._mounted.
C6_TeardownNeverRaises ==
    /\ exit_state # "raised"
    /\ pc = "done" /\ exit_state # "notrun" => Len(Unmounted) = Len(_mounted)

(* ------------------------------ C7 ------------------------------------ *)

\* C7: every unmount command targets a path that a mount command of the
\* session had mounted with success before it and that has not been
\* unmounted since: among the commands up to and including the unmount,
\* the path has no more unmounts than successful mounts.
C7_OnlyMountedUnmounted ==
    \A k \in DOMAIN cmds :
        IsUmount(cmds[k]) =>
            LET t == cmds[k].target
                before == SubSeq(cmds, 1, k)
            IN  /\ t \in Range(_mounted)
                /\ Count(before, LAMBDA c : IsUmount(c) /\ c.target = t)
                     <= Count(before, LAMBDA c : IsMountOk(c) /\ c.target = t)

\* a teardown after a failed mount: two unmounts issued, the target of the
\* failed mount mounted once before and so unmounted once
C7_Witness ==
    /\ pc = "done"
    /\ Len(Unmounted) >= 2
    /\ \E k \in DOMAIN cmds :
         /\ cmds[k].prog = "mount" /\ cmds[k].rc = "nonzero"
         /\ cmds[k].target \in Range(Unmounted)

(* ------------------------------ C8 ------------------------------------ *)

\* C8: once __exit__ has returned, the active mount list is empty and the
\* staging record is cleared.
C8_InertAfterExit ==
    exit_state = "returned" => _mounted = <<>> /\ _qemu_copied = False

(* ------------------------------ C9 ------------------------------------ *)

\* C9: when the staging command exits non-zero, no mount of the plan is
\* attempted, and the caller gets the failure after the teardown has run.
C9_StagingFailureAborts ==
    \A k \in DOMAIN cmds :
        IsStaging(cmds[k]) /\ cmds[k].rc = "nonzero" =>
            /\ Count(cmds, IsPlanMount) = 0
            /\ pc # "body"
            /\ pc = "done" => exit_state = "returned"
                               /\ outcome = "CalledProcessError"

(* ------------------------------ C10 ----------------------------------- *)

\* the preconditions, as the documentation lists them
Preconditions(h) ==
    /\ h.rootfs_exists /\ h.rootfs_isdir
    /\ resolved_qemu(h) # None /\ h.qemu_isfile /\ h.qemu_exec
    /\ h.userspec # <<>> =>
         (\E k \in DOMAIN h.userspec : h.userspec[k] = ":")
         /\ ~(\E k \in DOMAIN h.userspec : h.userspec[k] = "-")

\* C10: a constructor call whose preconditions do not all hold raises, and
\* a constructor that raised has issued no command and mounted nothing.
C10_ConstructorFailsClean ==
    /\ host.called /\ ~Preconditions(host) => pc = "init_raised"
    /\ pc = "init_raised" =>
         /\ outcome \notin {"pending", "returned"}
         /\ cmds = <<>>
         /\ _mounted = <<>>
         /\ _qemu_copied = False

\* the last check failed: rootfs and emulator are fine, the userspec has a
\* colon and a dash
C10_Witness ==
    /\ pc = "init_raised"
    /\ outcome = "ValueError"
    /\ host.rootfs_isdir /\ host.qemu_isfile /\ host.qemu_exec
    /\ host.arch = ARCH /\ host.qemu = None /\ host.which_found
    /\ host.userspec = <<"u", "-", "x", ":", "g">>

(* ------------------ QemuRunner.run and run_script --------------------- *)

\* the scripts the body stages, and the two string functions run_script
\* applies to them: os.path.join(self.tmp, basename) and
\* os.path.join("/tmp", basename)
Scripts == {"/host/setup.sh", "build.sh"}
dest(script) ==
    IF script = "/host/setup.sh" THEN "/r/tmp/setup.sh" ELSE "/r/tmp/build.sh"
dest_in_chroot(script) ==
    IF script = "/host/setup.sh" THEN "/tmp/setup.sh" ELSE "/tmp/build.sh"

\* the commands the body runs, and the keyword arguments it passes with a
\* call: the userspec (<<>> for None) and, to run_script, sudo
Commands == {<<"/usr/bin/apt", "update">>}
CallKwargs == {[userspec |-> <<>>, sudo |-> FALSE],
               [userspec |-> <<"b", ":", "b">>, sudo |-> TRUE]}

\* _base_command: chroot [--userspec=...] rootfs, the userspec of the call
\* taking precedence over the session's; extended with the command and run
_base_command(us, command, sudo_, rc) ==
    [prog |-> "chroot", source |-> None, target |-> "/r", type_ |-> None,
     options |-> {}, sudo |-> sudo_, rc |-> rc,
     userspec |-> IF us # <<>> THEN us ELSE userspec,
     command |-> command]

\* a run that checks the exit status of what it ran
run_raises_on_status(rc) == checked(rc)

\* what QemuRunner.run raises: it returns the CompletedProcess unchecked
run_raises(rc) == spawn_error(rc)

\* an exception e raised by a call the body makes: the body does not catch
\* it, so the with statement calls __exit__ with it
RaiseInBody(e) ==
    /\ exc' = e
    /\ exit_from' = "with"
    /\ pc' = "exit"

\* the result a call hands back to the body
Returned(call, rc) == [call |-> call, returncode |-> rc]

\* runner.run(command, userspec=...)
QemuRun ==
    /\ pc = "body"
    /\ Len(call_results) < MaxCalls
    /\ \E command \in Commands, kw \in CallKwargs, rc \in Results :
        /\ Possible(rc)
        /\ cmds' = Append(cmds, _base_command(kw.userspec, command, sudo, rc))
        /\ IF run_raises(rc) = "None"
           THEN /\ call_results' = Append(call_results, Returned("run", rc))
                /\ UNCHANGED <<pc, exc, exit_from>>
           ELSE /\ RaiseInBody(run_raises(rc))
                /\ UNCHANGED call_results
    /\ UNCHANGED <<host, spawn_fails, qemu, mount_kwargs, userspec, sudo,
                   _qemu_copied, _mounted, target_isfile, i, todo, exit_state,
                   outcome, log>>
    /\ UNCHANGED <<vmvars, prvars, mainvars, kbvars>>

\* runner.run_script(script, userspec=..., sudo=...): copy the script
\* into <rootfs>/tmp, checked, then run it from /tmp inside the chroot
QemuRunScript ==
    /\ pc = "body"
    /\ Len(call_results) < MaxCalls
    /\ \E script \in Scripts, kw \in CallKwargs, rc_cp \in Results,
          rc \in Results :
        LET cp == run("cp", script, dest(script), None, {}, kw.sudo, rc_cp)
            exec == _base_command(kw.userspec, <<dest_in_chroot(script)>>,
                                  sudo, rc)
        IN  /\ Possible(rc_cp)
            /\ IF checked(rc_cp) # "None"
               THEN /\ rc = "ok"
                    /\ cmds' = Append(cmds, cp)
                    /\ RaiseInBody(checked(rc_cp))
                    /\ UNCHANGED call_results
               ELSE /\ Possible(rc)
                    /\ cmds' = cmds \o <<cp, exec>>
                    /\ IF run_raises(rc) = "None"
                       THEN /\ call_results' =
                                Append(call_results, Returned("run_script", rc))
                            /\ UNCHANGED <<pc, exc, exit_from>>
                       ELSE /\ RaiseInBody(run_raises(rc))
                            /\ UNCHANGED call_results
    /\ UNCHANGED <<host, spawn_fails, qemu, mount_kwargs, userspec, sudo,
                   _qemu_copied, _mounted, target_isfile, i, todo, exit_state,
                   outcome, log>>
    /\ UNCHANGED <<vmvars, prvars, mainvars, kbvars>>

\* a session whose constructor has returned, on a host that starts every
\* process: the emulator was found through shutil.which, the plan is one
\* mount of the caller's
InitRun ==
    /\ spawn_fails = FALSE
    /\ host \in {h \in CtorCalls : /\ init_error(h) = "None"
                                   /\ h.qemu = None}
    /\ pc = "enter"
    /\ qemu = resolved_qemu(host)
    /\ mount_kwargs \in {plan_of(<<m>>, <<>>, FALSE, FALSE, FALSE) :
                           m \in UserMounts}
    /\ userspec = host.userspec
    /\ sudo = session_sudo(host.user)
    /\ _qemu_copied = False
    /\ _mounted = <<>>
    /\ target_isfile = FALSE
    /\ i = 0
    /\ todo = <<>>
    /\ exc = "None"
    /\ exit_from = "none"
    /\ exit_state = "notrun"
    /\ outcome = "pending"
    /\ log = <<>>
    /\ cmds = <<>>
    /\ call_results = <<>>
    /\ vm_pc = "new"
    /\ vm_self = NoVm
    /\ vm_exc = "None"
    /\ vm_outcome = "pending"
    /\ vm_log = <<>>
    /\ vm_cmds = <<>>
    /\ pr_pc = "new"
    /\ pr_self = NoProot
    /\ _scripts = <<>>
    /\ pr_exc = "None"
    /\ pr_outcome = "pending"
    /\ pr_log = <<>>
    /\ pr_ops = <<>>
    /\ main_pc = "new"
    /\ main_args = NoArgs
    /\ main_i = 0
    /\ main_result = "pending"
    /\ kb_pc = "new"
    /\ kb_args = NoArgs
    /\ kb_cmds = <<>>
    /\ kb_result = "pending"

\* the session from __enter__ on, with a body that calls run and run_script
NextRun ==
    \/ EnterStage
    \/ EnterMount
    \/ EnterReturn
    \/ EnterInterrupt
    \/ EnterExcept
    \/ QemuRun
    \/ QemuRunScript
    \/ Body
    \/ ExitBegin
    \/ ExitUmount
    \/ ExitReturn

SpecRun == InitRun /\ [][NextRun]_vars

\* the chroot commands that were started, in the order they were issued
IsStartedChroot(c) == c.prog = "chroot" /\ c.rc # "oserror"
IsScriptCp(c) == c.prog = "cp" /\ c.source \in Scripts
Last(s) == s[Len(s)]

\* C11: inside an active session run and run_script hand the result of the
\* command or script back to the body whatever its exit status: a chroot
\* command that was started, with status 0 or not, adds its status to what
\* the body was returned, leaves the session in the body with no exception
\* in flight, and issues no unmount and no removal; an exit status alone
\* never raises.
C11_RunReturnsEveryStatus ==
    [][ /\ (Len(cmds') > Len(cmds) /\ IsStartedChroot(Last(cmds')))
            => /\ Len(call_results') = Len(call_results) + 1
               /\ Last(call_results').returncode = Last(cmds').rc
        /\ Len(call_results') > Len(call_results)
            => /\ pc = "body" /\ pc' = "body"
               /\ exc' = "None"
               /\ Count(cmds', IsUmount) = 0
               /\ Count(cmds', IsRm) = 0 ]_vars

\* a script that exited non-zero was returned to the body, and a later call
\* was accepted and returned as well; nothing has been torn down
C11_Witness ==
    /\ pc = "body"
    /\ Len(call_results) = 2
    /\ call_results[1] = Returned("run_script", "nonzero")
    /\ call_results[2].call = "run"
    /\ Count(cmds, IsUmount) = 0
    /\ Count(cmds, IsRm) = 0

\* the scripts whose copy into <rootfs>/tmp exited with status 0
Staged == {sc \in Scripts : \E k \in DOMAIN cmds :
              IsScriptCp(cmds[k]) /\ cmds[k].source = sc /\ cmds[k].rc = "ok"}
\* the positions of the commands that remove the staged copy of a script
Removals(sc) == {k \in DOMAIN cmds : IsRm(cmds[k]) /\ cmds[k].target = dest(sc)}

\* C12: once __exit__ has returned, the copy of every script run_script
\* staged in the session has been removed by exactly one command, issued
\* after every unmount.
C12_StagedScriptsDeleted ==
    exit_state = "returned" =>
        \A sc \in Staged :
            /\ Cardinality(Removals(sc)) = 1
            /\ \A k \in Removals(sc), j \in DOMAIN cmds :
                   IsUmount(cmds[j]) => j < k

(* --------------------------- MultipassRunner -------------------------- *)

\* shutil.which("multipass") when multipass is installed
MULTIPASS == "/usr/bin/multipass"
\* where scripts are copied to
scriptdir == "/tmp/scriptdir"

\* find_multipass(): the path, or the exception raised when there is none
find_multipass(found) == IF found THEN MULTIPASS ELSE "FileNotFoundError"

\* the constructor calls of the model: name and verbose
VmCtorCalls == {[name |-> "tib", verbose |-> 0],
                [name |-> "builder", verbose |-> 1]}

\* one end of a transfer or mount: a path on the host (vm is None) or the
\* path f"{name}:{path}" inside a VM
Endpoint(vm, path) == [vm |-> vm, path |-> path]
NoEndpoint == Endpoint(None, None)

\* a path left on the host side
unqualified(name, path) == Endpoint(None, path)

\* f"{self._name}:{path}"
qualified(name, path) == Endpoint(name, path)

\* a multipass command as issued, and its result
multipass(verb, argv, sources, dest_, kwargs, rc) ==
    [verb |-> verb, argv |-> argv, sources |-> sources, dest |-> dest_,
     kwargs |-> kwargs, rc |-> rc]

RECURSIVE verbose_options(_)
verbose_options(n) == IF n = 0 THEN <<>> ELSE <<"--verbose">> \o verbose_options(n - 1)

\* multipass launch --cpus .. --disk .. --mem .. --name .. [--verbose]* image
launch(self, rc) ==
    multipass("launch",
              <<"--cpus", "4", "--disk", "64G", "--mem", "8G", "--name",
                self._name>> \o verbose_options(self._verbose) \o <<"18.04">>,
              <<>>, NoEndpoint, {}, rc)

\* multipass delete --purge name
delete(self, rc) ==
    multipass("delete", <<"--purge", self._name>>, <<>>, NoEndpoint, {}, rc)

\* a run that keeps the caller's keyword arguments to itself
vm_exec_dropping_kwargs(self, command, kwargs, rc) ==
    multipass("exec", <<self._name, "--">> \o command, <<>>, NoEndpoint,
              {}, rc)

\* MultipassRunner.run: multipass exec name -- command, with the caller's
\* keyword arguments handed to subprocess.run
vm_exec(self, command, kwargs, rc) ==
    multipass("exec", <<self._name, "--">> \o command, <<>>, NoEndpoint,
              kwargs, rc)

\* MultipassRunner.transfer_to: one checked transfer per source, in order,
\* up to and including the first that raises
RECURSIVE transfer_to(_, _, _, _)
transfer_to(self, sources, dest_, rcs) ==
    IF sources = <<>> THEN <<>>
    ELSE LET command == multipass("transfer", <<>>,
                                  <<Endpoint(None, Head(sources))>>,
                                  qualified(self._name, dest_), {}, Head(rcs))
         IN  IF checked(Head(rcs)) # "None" THEN <<command>>
             ELSE <<command>> \o transfer_to(self, Tail(sources), dest_,
                                             Tail(rcs))

\* MultipassRunner.transfer_from: one transfer of every source, each
\* prefixed with the VM's name
transfer_from(self, sources, dest_, rc) ==
    multipass("transfer", <<>>,
              [k \in DOMAIN sources |-> qualified(self._name, sources[k])],
              Endpoint(None, dest_), {}, rc)

\* MultipassRunner.mount
vm_mount(self, source, target, rc) ==
    multipass("mount", <<>>, <<Endpoint(None, source)>>,
              qualified(self._name, target), {}, rc)

\* what the last command of a checked sequence raises
raised_by_last(issued) == checked(issued[Len(issued)].rc)

\* the run_script calls of the model, with os.path.abspath(script) and
\* f"{self.scriptdir}/{os.path.basename(script)}"
ScriptCalls == {[script |-> "echo.sh", args |-> <<"one", "two">>,
                 kwargs |-> {"stdout=PIPE"}],
                [script |-> "/host/build.sh", args |-> <<>>, kwargs |-> {}]}
abspath(script) == IF script = "echo.sh" THEN "/cwd/echo.sh" ELSE script
script_dest(script) ==
    CASE script = "/cwd/echo.sh" -> "/tmp/scriptdir/echo.sh"
      [] script = "/opt/tib/install_deps.sh" -> "/tmp/scriptdir/install_deps.sh"
      [] script = "/opt/tib/utils.py" -> "/tmp/scriptdir/utils.py"
      [] script = "/opt/tib/download_bsp.sh" -> "/tmp/scriptdir/download_bsp.sh"
      [] script = "/opt/tib/download_rootfs.sh"
           -> "/tmp/scriptdir/download_rootfs.sh"
      [] script = "/opt/tib/download_public_sources.sh"
           -> "/tmp/scriptdir/download_public_sources.sh"
      [] script = "/opt/tib/toolchain.py" -> "/tmp/scriptdir/toolchain.py"
      [] script = "/opt/tib/kernel.py" -> "/tmp/scriptdir/kernel.py"
      [] script = "/opt/tib/chroot.py" -> "/tmp/scriptdir/chroot.py"
      [] script = "/opt/tib/patch_extlinux.py"
           -> "/tmp/scriptdir/patch_extlinux.py"
      [] script = "/host/user.sh" -> "/tmp/scriptdir/user.sh"
      [] script = "/host/chroot.sh" -> "/tmp/scriptdir/chroot.sh"
      [] OTHER -> "/tmp/scriptdir/build.sh"

\* a run_script that creates the staging directory only when the session
\* has not created it yet
creates_scriptdir_once(history) ==
    \A k \in DOMAIN history :
        ~(history[k].verb = "exec" /\ history[k].argv[3] = "mkdir")

\* whether run_script issues the mkdir of the staging directory: always
creates_scriptdir(history) == TRUE

\* the keyword arguments subprocess.run takes, among those of the model
PopenKwargs == {"stdout=PIPE"}

\* subprocess.run(command, **kwargs): TypeError for a keyword argument that
\* Popen does not have, raised before any process is started
popen_error(kwargs) ==
    IF kwargs \subseteq PopenKwargs THEN "None" ELSE "TypeError"

\* MultipassRunner.run_script: the commands it issues given the results
\* rcs of mkdir, transfer, chmod and the script, and what it raises
run_script(self, history, call, rcs) ==
    LET script == abspath(call.script)
        dest_ == script_dest(script)
        mk == IF creates_scriptdir(history)
              THEN <<vm_exec(self, <<"mkdir", "-p", "-m", "700", scriptdir>>,
                             {}, rcs[1])>>
              ELSE <<>>
        tr == transfer_to(self, <<script>>, dest_, <<rcs[2]>>)
        ch == vm_exec(self, <<"chmod", "+x", dest_>>, {}, rcs[3])
        ex == vm_exec(self, <<dest_>> \o call.args, call.kwargs, rcs[4])
    IN  IF mk # <<>> /\ spawn_error(rcs[1]) # "None"
        THEN [issued |-> mk, raised |-> spawn_error(rcs[1])]
        ELSE IF raised_by_last(tr) # "None"
        THEN [issued |-> mk \o tr, raised |-> raised_by_last(tr)]
        ELSE IF spawn_error(rcs[3]) # "None"
        THEN [issued |-> mk \o tr \o <<ch>>, raised |-> spawn_error(rcs[3])]
        ELSE IF popen_error(call.kwargs) # "None"
        THEN [issued |-> mk \o tr \o <<ch>>,
              raised |-> popen_error(call.kwargs)]
        ELSE [issued |-> mk \o tr \o <<ch, ex>>, raised |-> spawn_error(rcs[4])]

\* the results the host can give the commands of one call
VmPossible(issued) ==
    /\ \A k \in DOMAIN issued : issued[k].rc = "oserror" => spawn_fails
    /\ \/ \A k \in DOMAIN issued : issued[k].rc = "ok"
       \/ NFail(vm_cmds \o issued) <= MaxFail

InfoRecord(msg) == [level |-> "info", msg |-> msg, formats |-> TRUE]

\* what __enter__ logs when the launch fails
StartError ==
    "Error starting VM. Check output of multipass command. Often, the VM may already exist. Try 'multipass delete --purge tib' and then try again."

\* MultipassRunner(...): find multipass, then store the arguments
VmConstruct ==
    /\ vm_pc = "new"
    /\ \E found \in BOOLEAN, call \in VmCtorCalls, no_cleanup \in BOOLEAN :
        IF find_multipass(found) = "FileNotFoundError"
        THEN /\ vm_pc' = "init_raised"
             /\ vm_outcome' = find_multipass(found)
             /\ UNCHANGED vm_self
        ELSE /\ vm_pc' = "enter"
             /\ vm_self' = [_name |-> call.name, _verbose |-> call.verbose,
                            no_cleanup |-> no_cleanup]
             /\ UNCHANGED vm_outcome
    /\ UNCHANGED <<vm_exc, vm_log, vm_cmds>>
    /\ UNCHANGED <<pc, host, spawn_fails, qemu, mount_kwargs, userspec, sudo,
                   _qemu_copied, _mounted, target_isfile, i, todo, exc,
                   exit_from, exit_state, outcome, log, cmds, call_results>>
    /\ UNCHANGED <<prvars, mainvars, kbvars>>

\* __enter__: launch the VM, checked; a failure is logged and re-raised,
\* and the with statement does not call __exit__ for a failed __enter__
VmEnter ==
    /\ vm_pc = "enter"
    /\ \E rc \in Results :
        /\ VmPossible(<<launch(vm_self, rc)>>)
        /\ vm_cmds' = Append(vm_cmds, launch(vm_self, rc))
        /\ IF checked(rc) # "None"
           THEN /\ vm_log' = vm_log \o
                      <<InfoRecord("Setting up VM."),
                        ErrorRecord(StartError, TRUE)>>
                /\ vm_exc' = checked(rc)
                /\ vm_outcome' = checked(rc)
                /\ vm_pc' = "done"
           ELSE /\ vm_log' = vm_log \o <<InfoRecord("Setting up VM."),
                                         InfoRecord("VM Ready.")>>
                /\ vm_pc' = "body"
                /\ UNCHANGED <<vm_exc, vm_outcome>>
    /\ UNCHANGED vm_self
    /\ UNCHANGED <<pc, host, spawn_fails, qemu, mount_kwargs, userspec, sudo,
                   _qemu_copied, _mounted, target_isfile, i, todo, exc,
                   exit_from, exit_state, outcome, log, cmds, call_results>>
    /\ UNCHANGED <<prvars, mainvars, kbvars>>

\* KeyboardInterrupt while the launch command runs: `except Exception` does
\* not catch it
VmEnterInterrupt ==
    /\ vm_pc = "enter"
    /\ VmPossible(<<launch(vm_self, "interrupted")>>)
    /\ vm_cmds' = Append(vm_cmds, launch(vm_self, "interrupted"))
    /\ vm_log' = Append(vm_log, InfoRecord("Setting up VM."))
    /\ vm_exc' = "KeyboardInterrupt"
    /\ vm_outcome' = "KeyboardInterrupt"
    /\ vm_pc' = "done"
    /\ UNCHANGED vm_self
    /\ UNCHANGED <<pc, host, spawn_fails, qemu, mount_kwargs, userspec, sudo,
                   _qemu_copied, _mounted, target_isfile, i, todo, exc,
                   exit_from, exit_state, outcome, log, cmds, call_results>>
    /\ UNCHANGED <<prvars, mainvars, kbvars>>

\* a call of the body that issued `issued` and raised `raised` ("None" when
\* it returned `result`): an exception leaves the body
VmCall(call, issued, raised, result) ==
    /\ Len(call_results) < MaxCalls
    /\ VmPossible(issued)
    /\ vm_cmds' = vm_cmds \o issued
    /\ IF raised = "None"
       THEN /\ call_results' = Append(call_results, Returned(call, result))
            /\ UNCHANGED <<vm_pc, vm_exc>>
       ELSE /\ vm_exc' = raised
            /\ vm_pc' = "exit"
            /\ UNCHANGED call_results
    /\ UNCHANGED <<vm_self, vm_outcome, vm_log>>
    /\ UNCHANGED <<pc, host, spawn_fails, qemu, mount_kwargs, userspec, sudo,
                   _qemu_copied, _mounted, target_isfile, i, todo, exc,
                   exit_from, exit_state, outcome, log, cmds>>
    /\ UNCHANGED <<prvars, mainvars, kbvars>>

\* the sources the body hands to one transfer_to call
SourceLists == {<<"/host/a.patch">>, <<"/host/a.patch", "/host/b.patch">>}

\* runner.run(command): the result is returned unchecked
VmRun ==
    /\ vm_pc = "body"
    /\ \E rc \in Results :
        VmCall("run", <<vm_exec(vm_self, <<"echo", "testing">>, {}, rc)>>,
               spawn_error(rc), rc)

\* runner.run_script(script, *args, **kwargs)
VmRunScript ==
    /\ vm_pc = "body"
    /\ \E call \in ScriptCalls, rcs \in [1..4 -> Results] :
        \E r \in {run_script(vm_self, vm_cmds, call, rcs)} :
            \* the results of the steps that were not reached play no part
            /\ \A k \in 1..4 : k > Len(r.issued) => rcs[k] = "ok"
            /\ VmCall("run_script", r.issued, r.raised, Last(r.issued).rc)

\* runner.transfer_to(*sources, dest)
VmTransferTo ==
    /\ vm_pc = "body"
    /\ \E sources \in SourceLists, rcs \in [1..2 -> Results] :
        \E issued \in {transfer_to(vm_self, sources, "/home/ubuntu", rcs)} :
            /\ \A k \in 1..2 : k > Len(issued) => rcs[k] = "ok"
            /\ VmCall("transfer_to", issued, raised_by_last(issued), None)

\* runner.transfer_from(*sources, dest)
VmTransferFrom ==
    /\ vm_pc = "body"
    /\ \E rc \in Results :
        VmCall("transfer_from",
               <<transfer_from(vm_self, <<"/home/ubuntu/sdcard.img">>,
                               "/host/out", rc)>>,
               checked(rc), None)

\* runner.mount(source, target)
VmMount ==
    /\ vm_pc = "body"
    /\ \E rc \in Results :
        VmCall("mount", <<vm_mount(vm_self, "/host/src", "/mnt/src", rc)>>,
               checked(rc), None)

\* the body of the with statement ends: normally, with an ordinary error,
\* or with KeyboardInterrupt
VmBody ==
    /\ vm_pc = "body"
    /\ \E e \in {"None", "RuntimeError", "KeyboardInterrupt"} : vm_exc' = e
    /\ vm_pc' = "exit"
    /\ UNCHANGED <<vm_self, vm_outcome, vm_log, vm_cmds>>
    /\ UNCHANGED <<pc, host, spawn_fails, qemu, mount_kwargs, userspec, sudo,
                   _qemu_copied, _mounted, target_isfile, i, todo, exc,
                   exit_from, exit_state, outcome, log, cmds, call_results>>
    /\ UNCHANGED <<prvars, mainvars, kbvars>>

\* an __exit__ that deletes the VM whatever no_cleanup says
cleans_up_always(self) == TRUE

\* whether __exit__ deletes the VM
cleans_up(self) == ~self.no_cleanup

\* an __exit__ that suppresses nothing
suppresses_never(e) == FALSE

\* whether __exit__ returns True for the exception it is called with
suppresses(e) == e = "KeyboardInterrupt"

\* what the caller observes when __exit__ returns for exception e
after_vm_exit(e) ==
    IF e = "None" \/ suppresses(e) THEN "returned" ELSE e

\* an __exit__ that issues its delete twice
exit_commands_twice(self, rc) == <<delete(self, rc), delete(self, rc)>>

\* the commands __exit__ issues when it cleans up: one delete --purge
exit_commands(self, rc) == <<delete(self, rc)>>

\* __exit__: delete and purge the VM unless no_cleanup, the result of the
\* command unchecked; return True for KeyboardInterrupt
VmExit ==
    /\ vm_pc = "exit"
    /\ vm_pc' = "done"
    /\ LET cancelled == IF vm_exc = "KeyboardInterrupt"
                        THEN <<InfoRecord("Cancelled.")>> ELSE <<>>
       IN  IF cleans_up(vm_self)
           THEN \E rc \in Results :
                /\ VmPossible(exit_commands(vm_self, rc))
                /\ vm_cmds' = vm_cmds \o exit_commands(vm_self, rc)
                /\ IF spawn_error(rc) # "None"
                   THEN /\ vm_log' = Append(vm_log, InfoRecord("Cleaning up"))
                        /\ vm_outcome' = spawn_error(rc)
                   ELSE /\ vm_log' = vm_log \o <<InfoRecord("Cleaning up"),
                                                 InfoRecord("VM Deleted.")>>
                                            \o cancelled
                        /\ vm_outcome' = after_vm_exit(vm_exc)
           ELSE /\ vm_log' = vm_log \o cancelled
                /\ vm_outcome' = after_vm_exit(vm_exc)
                /\ UNCHANGED vm_cmds
    /\ UNCHANGED <<vm_self, vm_exc>>
    /\ UNCHANGED <<pc, host, spawn_fails, qemu, mount_kwargs, userspec, sudo,
                   _qemu_copied, _mounted, target_isfile, i, todo, exc,
                   exit_from, exit_state, outcome, log, cmds, call_results>>
    /\ UNCHANGED <<prvars, mainvars, kbvars>>

NextVM ==
    \/ VmConstruct
    \/ VmEnter
    \/ VmEnterInterrupt
    \/ VmRun
    \/ VmRunScript
    \/ VmTransferTo
    \/ VmTransferFrom
    \/ VmMount
    \/ VmBody
    \/ VmExit

SpecVM == Init /\ [][NextVM]_vars
SpecVMExec == InitExec /\ [][NextVM]_vars

(* ---------------------- reading the VM's history ---------------------- *)

IsLaunch(c) == c.verb = "launch"
IsDelete(c) == c.verb = "delete"
IsTransfer(c) == c.verb = "transfer"
IsVmExec(c) == c.verb = "exec"
\* the program an exec command runs in the VM: what follows name and "--"
Program(c) == c.argv[3]
IsMkdir(c) == IsVmExec(c) /\ Program(c) = "mkdir"
ScriptDests == {script_dest(abspath(call.script)) : call \in ScriptCalls}
\* the transfer of a script into the staging directory
IsScriptTransfer(c) == IsTransfer(c) /\ c.dest.path \in ScriptDests
\* the launch exited with status 0: __enter__ returned and the body ran
VmBodyEntered == vm_cmds # <<>> /\ vm_cmds[1].rc = "ok"
VmErrors == {"RuntimeError", "CalledProcessError", "OSError"}

\* C13: in a session that deletes its VM, a body that raised an ordinary
\* error has the delete command issued by the time the caller observes
\* anything, and the caller observes that error; a body that was cancelled
\* by KeyboardInterrupt has the delete issued as well and the caller
\* observes a normal return.
C13_DeleteThenPropagate ==
    (VmBodyEntered /\ ~vm_self.no_cleanup /\ vm_outcome # "pending") =>
        /\ IsDelete(Last(vm_cmds))
        /\ vm_exc \in VmErrors => vm_outcome = vm_exc
        /\ vm_exc = "KeyboardInterrupt" => vm_outcome = "returned"

\* the body raised an error, the VM was deleted, the caller got the error
C13_Witness ==
    /\ VmBodyEntered /\ ~vm_self.no_cleanup
    /\ vm_exc = "RuntimeError" /\ vm_outcome = "RuntimeError"
    /\ IsDelete(Last(vm_cmds))

\* the body was cancelled, the VM was deleted, the caller got no error
C13_WitnessCancelled ==
    /\ VmBodyEntered /\ ~vm_self.no_cleanup
    /\ vm_exc = "KeyboardInterrupt" /\ vm_outcome = "returned"
    /\ IsDelete(Last(vm_cmds))

\* C14: once the body has ended and __exit__ is over, a session that
\* deletes its VM has issued exactly one delete command, `delete --purge`
\* of its own name, whichever way the body ended; a session with cleanup
\* suppressed has issued none; and no delete is issued before __exit__.
C14_ExactlyOneDelete ==
    /\ vm_pc \in {"new", "enter", "body", "exit"} => Count(vm_cmds, IsDelete) = 0
    /\ (vm_pc = "done" /\ VmBodyEntered) =>
          IF vm_self.no_cleanup
          THEN Count(vm_cmds, IsDelete) = 0
          ELSE /\ Count(vm_cmds, IsDelete) = 1
               /\ Last(vm_cmds).verb = "delete"
               /\ Last(vm_cmds).argv = <<"--purge", vm_self._name>>

\* a body that raised in a session with cleanup suppressed: no delete
C14_Witness ==
    /\ vm_pc = "done" /\ VmBodyEntered /\ vm_self.no_cleanup
    /\ vm_exc = "RuntimeError"
    /\ Count(vm_cmds, IsDelete) = 0

\* a body that ended normally in a session that deletes its VM: one delete
C14_WitnessDeleted ==
    /\ vm_pc = "done" /\ VmBodyEntered /\ ~vm_self.no_cleanup
    /\ vm_exc = "None"
    /\ Count(vm_cmds, IsDelete) = 1

\* C15: a session that deletes its VM and has issued the launch command
\* has issued the delete command by the time control is back with the
\* caller, a launch that failed or was interrupted included.
C15_NoVmLeaked ==
    (vm_pc = "done" /\ ~vm_self.no_cleanup /\ Count(vm_cmds, IsLaunch) > 0) =>
        Count(vm_cmds, IsDelete) > 0

\* C16: a launch that exits non-zero makes __enter__ log its guidance and
\* raise the failure: the caller observes CalledProcessError, the body made
\* no call, and the launch is the only command the session ever issued.
C16_LaunchFailureRaises ==
    (vm_cmds # <<>> /\ vm_cmds[1].rc = "nonzero") =>
        /\ vm_pc = "done"
        /\ vm_outcome = "CalledProcessError"
        /\ call_results = <<>>
        /\ Len(vm_cmds) = 1
        /\ Last(vm_log) = ErrorRecord(StartError, TRUE)

\* the launch exited non-zero
C16_Witness ==
    /\ Len(vm_cmds) = 1 /\ IsLaunch(vm_cmds[1]) /\ vm_cmds[1].rc = "nonzero"
    /\ vm_outcome = "CalledProcessError"

\* C17: when the delete command of __exit__ fails (non-zero exit, or not
\* started at all), the failure is logged as an error and the caller
\* observes what it would have observed had the delete succeeded: the
\* body's error, or a normal return after a normal or cancelled body.
C17_DeleteFailureLogged ==
    (vm_pc = "done" /\ IsDelete(Last(vm_cmds)) /\ Last(vm_cmds).rc # "ok") =>
        /\ \E k \in DOMAIN vm_log : vm_log[k].level = "error"
        /\ vm_outcome = IF vm_exc \in VmErrors THEN vm_exc ELSE "returned"

\* the transfer command at position k is the last command of the body:
\* nothing, or only the delete of __exit__, follows it
LastOfBody(k) ==
    \/ k = Len(vm_cmds)
    \/ k + 1 = Len(vm_cmds) /\ IsDelete(vm_cmds[k + 1])
\* a path inside the session's VM, and a path on the host
InVm(e) == e.vm = vm_self._name
OnHost(e) == e.vm = None

\* C18: a transfer command that exits non-zero is the last command of the
\* body, which it leaves with CalledProcessError, so no later source of the
\* same transfer_to is transferred; and every transfer command has its VM
\* side, the destination of transfer_to and every source of transfer_from,
\* qualified with the name of the session's VM, the other side being a
\* host path.
C18_TransferRaisesAndQualifies ==
    \A k \in DOMAIN vm_cmds :
        IsTransfer(vm_cmds[k]) =>
            /\ vm_cmds[k].rc = "nonzero" =>
                   /\ LastOfBody(k)
                   /\ vm_exc = "CalledProcessError"
                   /\ vm_pc \in {"exit", "done"}
            /\ \/ /\ InVm(vm_cmds[k].dest)
                  /\ \A j \in DOMAIN vm_cmds[k].sources :
                         OnHost(vm_cmds[k].sources[j])
               \/ /\ OnHost(vm_cmds[k].dest)
                  /\ \A j \in DOMAIN vm_cmds[k].sources :
                         InVm(vm_cmds[k].sources[j])

\* the first source of a transfer_to failed: the second was never sent
C18_Witness ==
    /\ vm_pc = "done"
    /\ vm_outcome = "CalledProcessError"
    /\ \E k \in DOMAIN vm_cmds :
        /\ IsTransfer(vm_cmds[k]) /\ vm_cmds[k].rc = "nonzero"
        /\ vm_cmds[k].sources = <<Endpoint(None, "/host/a.patch")>>
        /\ vm_cmds[k].dest = Endpoint(vm_self._name, "/home/ubuntu")
    /\ \A k \in DOMAIN vm_cmds :
        IsTransfer(vm_cmds[k]) =>
            vm_cmds[k].sources # <<Endpoint(None, "/host/b.patch")>>

\* the exec command c runs `command` in the session's VM
Runs(c, command) ==
    IsVmExec(c) /\ c.argv = <<vm_self._name, "--">> \o command

\* C19: every transfer of a script into the staging directory comes right
\* after the mkdir of that directory; when it exited with status 0 it is
\* followed at once by the chmod +x of the staged path and then by the
\* execution of that path; when it failed, neither follows and the body is
\* left with CalledProcessError.  No chmod and no execution of a staged
\* path is issued anywhere else.
C19_RunScriptOrder ==
    /\ \A k \in DOMAIN vm_cmds :
        IsScriptTransfer(vm_cmds[k]) =>
            /\ k > 1
            /\ Runs(vm_cmds[k - 1], <<"mkdir", "-p", "-m", "700", scriptdir>>)
            /\ IF vm_cmds[k].rc = "ok"
               THEN /\ k + 2 <= Len(vm_cmds)
                    /\ Runs(vm_cmds[k + 1],
                            <<"chmod", "+x", vm_cmds[k].dest.path>>)
                    /\ IsVmExec(vm_cmds[k + 2])
                    /\ Program(vm_cmds[k + 2]) = vm_cmds[k].dest.path
               ELSE /\ LastOfBody(k)
                    /\ vm_exc = "CalledProcessError"
    /\ \A k \in DOMAIN vm_cmds :
        (IsVmExec(vm_cmds[k]) /\ Program(vm_cmds[k]) \in ScriptDests) =>
            /\ k > 2
            /\ IsScriptTransfer(vm_cmds[k - 2])
            /\ vm_cmds[k - 2].rc = "ok"
            /\ vm_cmds[k - 2].dest.path = Program(vm_cmds[k])
    /\ \A k \in DOMAIN vm_cmds :
        (IsVmExec(vm_cmds[k]) /\ Program(vm_cmds[k]) = "chmod") =>
            /\ k > 1
            /\ IsScriptTransfer(vm_cmds[k - 1])
            /\ vm_cmds[k - 1].rc = "ok"

\* a run_script whose four commands were issued, the script exiting
\* non-zero, and a later run_script whose transfer failed
C19_Witness ==
    /\ Len(vm_cmds) >= 7
    /\ IsMkdir(vm_cmds[2])
    /\ IsScriptTransfer(vm_cmds[3]) /\ vm_cmds[3].rc = "ok"
    /\ Program(vm_cmds[4]) = "chmod"
    /\ Program(vm_cmds[5]) = "/tmp/scriptdir/echo.sh"
    /\ vm_cmds[5].rc = "nonzero"
    /\ IsMkdir(vm_cmds[6])
    /\ IsScriptTransfer(vm_cmds[7]) /\ vm_cmds[7].rc = "nonzero"
    /\ vm_outcome = "CalledProcessError"

\* C20 as stated: one session issues at most one command that creates the
\* staging directory, however often run_script is invoked.
C20_OneCreation == Count(vm_cmds, IsMkdir) <= 1

\* C20 as the code has it: every run_script invocation issues its own
\* `mkdir -p -m 700 /tmp/scriptdir`, so there are as many creation commands
\* as scripts handed to transfer, two after two invocations.
C20_OneCreationPerCall ==
    Count(vm_cmds, IsMkdir) = Count(vm_cmds, IsScriptTransfer)

\* run_script returned twice in one session: two creation commands
C20_Witness ==
    /\ Len(call_results) = 2
    /\ call_results[1].call = "run_script"
    /\ call_results[2].call = "run_script"
    /\ Count(vm_cmds, IsMkdir) = 2

\* C21: whenever run_script returns to the body, the last command issued
\* is the execution, in the session's VM, of the path the script was staged
\* at, followed by exactly the positional arguments of the call in their
\* order and carrying the keyword arguments of the call; the script
\* transferred two commands earlier is the script of that call; and the
\* result returned is the exit status of that execution, zero or not.
C21_ScriptRunAsGiven ==
    [][ (Len(call_results') > Len(call_results)
         /\ Last(call_results').call = "run_script") =>
            \E call \in ScriptCalls :
                LET staged == script_dest(abspath(call.script))
                    n == Len(vm_cmds')
                IN  /\ n = Len(vm_cmds) + 4
                    /\ vm_cmds'[n - 2].sources =
                           <<Endpoint(None, abspath(call.script))>>
                    /\ vm_cmds'[n - 2].dest = Endpoint(vm_self._name, staged)
                    /\ vm_cmds'[n].verb = "exec"
                    /\ vm_cmds'[n].argv =
                           <<vm_self._name, "--", staged>> \o call.args
                    /\ vm_cmds'[n].kwargs = call.kwargs
                    /\ Last(call_results').returncode = vm_cmds'[n].rc ]_vars

\* echo.sh was run with the arguments one, two and captured output, exited
\* non-zero, and that status was returned
C21_Witness ==
    /\ call_results # <<>>
    /\ Last(call_results) = Returned("run_script", "nonzero")
    /\ Last(vm_cmds).argv =
           <<vm_self._name, "--", "/tmp/scriptdir/echo.sh", "one", "two">>
    /\ Last(vm_cmds).kwargs = {"stdout=PIPE"}
    /\ Last(vm_cmds).rc = "nonzero"

(* ----------------------------- ProotRunner ---------------------------- *)

\* explicit path to proot
PROOT == "/usr/bin/proot"

\* a path: absolute or relative, and its components
Path(abs, parts) == [abs |-> abs, parts |-> parts]
NoPath == Path(FALSE, <<>>)
\* os.path.join(a, b): an absolute b discards a
join(a, b) == IF b.abs THEN b ELSE Path(a.abs, a.parts \o b.parts)
\* p lies inside the directory d
Under(d, p) ==
    /\ p.abs = d.abs
    /\ Len(p.parts) > Len(d.parts)
    /\ \A k \in DOMAIN d.parts : p.parts[k] = d.parts[k]

\* the constructor calls of the model: the target architecture, and what
\* platform.machine() answers on the host
ProotCtorCalls == [arch : {ARCH, "x86_64"}, machine : {ARCH, "x86_64"}]

\* f"qemu-{arch}-static"
qemu_static(arch) ==
    IF arch = ARCH THEN "qemu-aarch64-static" ELSE "qemu-x86_64-static"

\* a prefix that names the emulator on every host
base_command_always_emulated(self) ==
    <<PROOT, "-S", self.rootfs, "-w", "/", "-q", qemu_static(self.arch)>>

\* ProotRunner.base_command
base_command(self) ==
    <<PROOT, "-S", self.rootfs, "-w", "/">> \o
    (IF self.machine # self.arch
     THEN <<"-q", qemu_static(self.arch)>>
     ELSE <<>>)

\* ProotRunner.tmp
tmp(self) == join(self.rootfs, Path(FALSE, <<"tmp">>))

\* one operation of a proot session and its result: a command, a
\* shutil.copy or an os.remove
ProotOp(op, prefix, program, args, kwargs, src, dest_, result) ==
    [op |-> op, prefix |-> prefix, program |-> program, args |-> args,
     kwargs |-> kwargs, sudo |-> "sudo=True" \in kwargs, src |-> src,
     dest |-> dest_, result |-> result]

\* ProotRunner.run: run((*self.base_command, *command), **kwargs)
proot_run(self, program, args, kwargs, rc) ==
    ProotOp("run", base_command(self), program, args, kwargs, NoPath, NoPath,
            rc)
\* copy(src, dest)
copy(src, dest_, result) ==
    ProotOp("copy", <<>>, NoPath, <<>>, {}, src, dest_, result)
\* remove(path)
remove(path, result) ==
    ProotOp("remove", <<>>, NoPath, <<>>, {}, NoPath, path, result)

\* the scripts handed to run_script: a bare name, a relative path with a
\* directory, an absolute path
ProotScripts == {Path(FALSE, <<"setup.sh">>),
                 Path(FALSE, <<"scripts", "setup.sh">>),
                 Path(TRUE, <<"host", "setup.sh">>)}

\* what shutil.copy(src, dest) can do: source and destination being the
\* same file raises SameFileError; otherwise it copies, or raises because
\* the source or the destination directory is missing
CopyResults(src, dest_) ==
    IF src = dest_ THEN {"SameFileError"} ELSE {"ok", "FileNotFoundError"}

\* what os.remove(path), and os.rmdir(path) after IsADirectoryError, can do
RemoveResults == {"ok", "FileNotFoundError", "PermissionError",
                  "rmdir ok", "rmdir OSError"}

PrLog(level, msg, path, formats) ==
    [level |-> level, msg |-> msg, path |-> path, formats |-> formats]

\* remove(path): what it raises and what it logs.  logger.error(msg, err)
\* has an argument and no placeholder, so the record cannot be formatted
removed(path, result) ==
    IF result \in {"ok", "rmdir ok"}
    THEN [raised |-> "None", log |-> <<>>]
    ELSE IF result = "rmdir OSError"
    THEN [raised |-> "None",
          log |-> <<PrLog("error", "not empty", path, FALSE)>>]
    ELSE [raised |-> result, log |-> <<>>]

\* the loop of __exit__ over self._scripts, given the result of each
\* removal: the operations made and the records logged
RECURSIVE cleanup(_, _)
cleanup(scripts, results) ==
    IF scripts = <<>> THEN [ops |-> <<>>, log |-> <<>>]
    ELSE LET r == removed(Head(scripts), Head(results))
             rest == cleanup(Tail(scripts), Tail(results))
         IN  [ops |-> <<remove(Head(scripts), Head(results))>> \o rest.ops,
              log |-> r.log \o
                      (IF r.raised # "None"
                       THEN <<PrLog("error", "removing failed", Head(scripts),
                                    FALSE)>>
                       ELSE <<>>) \o rest.log]

\* a path that was removed cannot be removed again
Removable(scripts, results) ==
    \A j \in DOMAIN scripts, k \in DOMAIN scripts :
        (j < k /\ scripts[j] = scripts[k] /\ results[j] \in {"ok", "rmdir ok"})
            => results[k] = "FileNotFoundError"

ProotFailed(o) == o.result \notin {"ok", "rmdir ok"}

\* the results the host can give the operations of one call
ProotPossible(issued) ==
    /\ \A k \in DOMAIN issued : issued[k].result = "oserror" => spawn_fails
    /\ \/ \A k \in DOMAIN issued : ~ProotFailed(issued[k])
       \/ Cardinality({k \in DOMAIN (pr_ops \o issued) :
                          ProotFailed((pr_ops \o issued)[k])}) <= MaxFail

\* ProotRunner(rootfs, arch): nothing is checked
ProotConstruct ==
    /\ pr_pc = "new"
    /\ \E call \in ProotCtorCalls :
        pr_self' = [rootfs |-> Path(TRUE, <<"r">>), arch |-> call.arch,
                    machine |-> call.machine]
    /\ pr_pc' = "enter"
    /\ UNCHANGED <<_scripts, pr_exc, pr_outcome, pr_log, pr_ops>>
    /\ UNCHANGED <<pc, host, spawn_fails, qemu, mount_kwargs, userspec, sudo,
                   _qemu_copied, _mounted, target_isfile, i, todo, exc,
                   exit_from, exit_state, outcome, log, cmds, call_results,
                   vmvars, mainvars, kbvars>>

\* __enter__ returns self
ProotEnter ==
    /\ pr_pc = "enter"
    /\ pr_pc' = "body"
    /\ UNCHANGED <<pr_self, _scripts, pr_exc, pr_outcome, pr_log, pr_ops>>
    /\ UNCHANGED <<pc, host, spawn_fails, qemu, mount_kwargs, userspec, sudo,
                   _qemu_copied, _mounted, target_isfile, i, todo, exc,
                   exit_from, exit_state, outcome, log, cmds, call_results,
                   vmvars, mainvars, kbvars>>

\* a call of the body that made the operations `issued`, staged `staged`
\* and raised `raised` ("None" when it returned `result`)
ProotCall(call, issued, staged, raised, result) ==
    /\ Len(call_results) < MaxCalls
    /\ ProotPossible(issued)
    /\ pr_ops' = pr_ops \o issued
    /\ _scripts' = _scripts \o staged
    /\ IF raised = "None"
       THEN /\ call_results' = Append(call_results, Returned(call, result))
            /\ UNCHANGED <<pr_pc, pr_exc>>
       ELSE /\ pr_exc' = raised
            /\ pr_pc' = "exit"
            /\ UNCHANGED call_results
    /\ UNCHANGED <<pr_self, pr_outcome, pr_log>>
    /\ UNCHANGED <<pc, host, spawn_fails, qemu, mount_kwargs, userspec, sudo,
                   _qemu_copied, _mounted, target_isfile, i, todo, exc,
                   exit_from, exit_state, outcome, log, cmds, vmvars,
                   mainvars, kbvars>>

\* runner.run(command, **kwargs); no caller in the repository passes sudo
ProotRun ==
    /\ pr_pc = "body"
    /\ \E kwargs \in {{}, {"stdout=PIPE"}}, rc \in Results :
        ProotCall("run",
                  <<proot_run(pr_self, Path(TRUE, <<"usr", "bin", "apt">>),
                              <<"update">>, kwargs, rc)>>,
                  <<>>, spawn_error(rc), rc)

\* runner.enter_chroot(): the result of the shell is dropped
ProotEnterChroot ==
    /\ pr_pc = "body"
    /\ \E rc \in Results :
        ProotCall("enter_chroot",
                  <<proot_run(pr_self, Path(TRUE, <<"bin", "bash">>), <<>>, {},
                              rc)>>,
                  <<>>, spawn_error(rc), None)

\* ProotRunner.run_script: the operations it makes given the result of the
\* copy and of the script, what it appends to _scripts and what it raises
proot_run_script(self, script, options, copied, rc) ==
    LET dest_ == join(tmp(self), script)
        dest_in_chroot_ == join(Path(TRUE, <<"tmp">>), script)
    IN  IF copied # "ok"
        THEN [issued |-> <<copy(script, dest_, copied)>>, staged |-> <<>>,
              raised |-> copied]
        ELSE [issued |-> <<copy(script, dest_, copied),
                           proot_run(self, dest_in_chroot_, options, {}, rc)>>,
              staged |-> <<dest_>>,
              raised |-> spawn_error(rc)]

\* runner.run_script(script, *options)
ProotRunScript ==
    /\ pr_pc = "body"
    /\ \E script \in ProotScripts, options \in {<<>>, <<"--fast">>},
          rc \in Results :
        \E copied \in CopyResults(script, join(tmp(pr_self), script)) :
            \E r \in {proot_run_script(pr_self, script, options, copied, rc)} :
                /\ copied # "ok" => rc = "ok"
                /\ ProotCall("run_script", r.issued, r.staged, r.raised, rc)

\* the body of the with statement ends
ProotBody ==
    /\ pr_pc = "body"
    /\ \E e \in {"None", "RuntimeError", "KeyboardInterrupt"} : pr_exc' = e
    /\ pr_pc' = "exit"
    /\ UNCHANGED <<pr_self, _scripts, pr_outcome, pr_log, pr_ops>>
    /\ UNCHANGED <<pc, host, spawn_fails, qemu, mount_kwargs, userspec, sudo,
                   _qemu_copied, _mounted, target_isfile, i, todo, exc,
                   exit_from, exit_state, outcome, log, cmds, call_results,
                   vmvars, mainvars, kbvars>>

\* __exit__: log an error in flight, then remove every staged script, each
\* inside its own try/except Exception; it returns None
ProotExit ==
    /\ pr_pc = "exit"
    /\ \E results \in [DOMAIN _scripts -> RemoveResults] :
        /\ Removable(_scripts, results)
        /\ \E c \in {cleanup(_scripts, results)} :
            /\ pr_ops' = pr_ops \o c.ops
            /\ pr_log' = pr_log \o
                   (IF pr_exc # "None"
                    THEN <<PrLog("error", "had error. Cleaning up.", NoPath,
                                 TRUE)>>
                    ELSE <<>>) \o c.log
    /\ pr_outcome' = IF pr_exc = "None" THEN "returned" ELSE pr_exc
    /\ pr_pc' = "done"
    /\ UNCHANGED <<pr_self, _scripts, pr_exc>>
    /\ UNCHANGED <<pc, host, spawn_fails, qemu, mount_kwargs, userspec, sudo,
                   _qemu_copied, _mounted, target_isfile, i, todo, exc,
                   exit_from, exit_state, outcome, log, cmds, call_results,
                   vmvars, mainvars, kbvars>>

NextProot ==
    \/ ProotConstruct
    \/ ProotEnter
    \/ ProotRun
    \/ ProotEnterChroot
    \/ ProotRunScript
    \/ ProotBody
    \/ ProotExit

SpecProot == InitExec /\ [][NextProot]_vars

(* -------------------- reading the proot history ----------------------- *)

IsProotRun(o) == o.op = "run"
IsCopy(o) == o.op = "copy"
IsRemove(o) == o.op = "remove"
\* the removals of __exit__, in order
Removed == SelectSeq(pr_ops, IsRemove)
\* a removal that left the staged script in place
RemovalFailed(o) == IsRemove(o) /\ ProotFailed(o)
\* the log holds a record of the failed removal of `path` that a handler
\* can format
FailureLogged(path) ==
    \E k \in DOMAIN pr_log :
        /\ pr_log[k].level = "error"
        /\ pr_log[k].path = path
        /\ pr_log[k].formats

\* once __exit__ is over: one removal was attempted for every entry of
\* _scripts, in order, whatever the results of the earlier ones, and the
\* caller observes the body's exception, or a return
ProotCleanupCompletes ==
    pr_pc = "done" =>
        /\ Len(Removed) = Len(_scripts)
        /\ \A k \in DOMAIN _scripts : Removed[k].dest = _scripts[k]
        /\ pr_outcome = IF pr_exc = "None" THEN "returned" ELSE pr_exc

\* C22: once __exit__ is over, the removal of every staged script has been
\* attempted, each whatever became of the others; every removal that
\* failed has its failure in the log; and the caller observes exactly what
\* the body ended with.
C22_CleanupIndependentAndLogged ==
    /\ ProotCleanupCompletes
    /\ pr_pc = "done" =>
          \A k \in DOMAIN pr_ops :
              RemovalFailed(pr_ops[k]) => FailureLogged(pr_ops[k].dest)

\* C23: every copy run_script makes is written inside <rootfs>/tmp; when it
\* succeeded the path recorded for deletion is that copy, and the command
\* that follows invokes the corresponding path under /tmp.
C23_StagedUnderTmp ==
    \A k \in DOMAIN pr_ops :
        IsCopy(pr_ops[k]) =>
            /\ Under(tmp(pr_self), pr_ops[k].dest)
            /\ pr_ops[k].result = "ok" =>
                  /\ \E j \in DOMAIN _scripts : _scripts[j] = pr_ops[k].dest
                  /\ k < Len(pr_ops)
                  /\ IsProotRun(pr_ops[k + 1])
                  /\ Under(Path(TRUE, <<"tmp">>), pr_ops[k + 1].program)
                  /\ join(pr_self.rootfs,
                          Path(FALSE, pr_ops[k + 1].program.parts))
                         = pr_ops[k].dest

C24_WitnessEmulated ==
    /\ pr_self.machine = "x86_64" /\ pr_self.arch = ARCH
    /\ \E k \in DOMAIN pr_ops :
        /\ IsProotRun(pr_ops[k])
        /\ pr_ops[k].prefix = <<PROOT, "-S", Path(TRUE, <<"r">>), "-w", "/",
                                "-q", "qemu-aarch64-static">>


(* ------------------------- the default mount plan --------------------- *)

\* the facts default_mount_kwargs reads from the rootfs
Layouts == [run_exists : BOOLEAN, etc_exists : BOOLEAN, etc_islink : BOOLEAN]

\* the entries of a plan that bind the host's /etc/resolv.conf
ResolvBinds(plan) ==
    {k \in DOMAIN plan : plan[k].source = "/etc/resolv.conf"}

\* the first five entries of the plan: what is mounted where, in order
FirstFive(plan) ==
    /\ Len(plan) >= 5
    /\ [k \in 1..5 |-> <<plan[k].type_, plan[k].source, plan[k].target>>]
         = << <<"sysfs", "sysfs", "/r/sys">>,
              <<"proc", "proc", "/r/proc">>,
              <<None, "/dev", "/r/dev">>,
              <<"devpts", "devpts", "/r/dev/pts">>,
              <<"tmpfs", "tmpfs", "/r/tmp">> >>
    /\ "bind" \in plan[3].options
    /\ plan[5].options \cap {"noexec", "ro"} = {}

\* self.mount_kwargs was built from default_mount_kwargs
HasDefaultPlan ==
    /\ pc \notin {"new", "init_raised"}
    /\ mount_kwargs # <<>>
    /\ mount_kwargs[1].target = "/r/sys"

RuleTarget(f) ==
    IF f.run_exists /\ f.etc_islink THEN "/r/run/resolvconf/resolv.conf"
    ELSE IF f.etc_exists /\ ~f.etc_islink THEN "/r/etc/resolv.conf"
    ELSE None

IsResolvWarning(rec) ==
    /\ rec.level = "warning"
    /\ rec.msg = "resolv.conf not found. network may not be reachable"

\* C26: for each of the eight rootfs layouts the plan holds at most one bind
\* of host /etc/resolv.conf: onto run/resolvconf/resolv.conf when that exists
\* and etc/resolv.conf is a symlink, else onto etc/resolv.conf when it exists
\* and is no symlink, else none, and then a warning is logged; a session
\* with the default plan has logged the warning exactly when it binds none
C26_ResolvRule ==
    /\ \A f \in Layouts :
           LET plan == default_mount_kwargs(f.run_exists, f.etc_exists,
                                            f.etc_islink)
               warned == resolv_warning(f.run_exists, f.etc_exists,
                                        f.etc_islink)
           IN  /\ Cardinality(ResolvBinds(plan)) <= 1
               /\ {plan[k].target : k \in ResolvBinds(plan)}
                     = {RuleTarget(f)} \ {None}
               /\ \A k \in ResolvBinds(plan) :
                      /\ plan[k].source = "/etc/resolv.conf"
                      /\ "bind" \in plan[k].options
               /\ (\E k \in DOMAIN warned : IsResolvWarning(warned[k]))
                     <=> RuleTarget(f) = None
    /\ HasDefaultPlan =>
           /\ Cardinality(ResolvBinds(mount_kwargs)) <= 1
           /\ (\E k \in DOMAIN log : IsResolvWarning(log[k]))
                 <=> ResolvBinds(mount_kwargs) = {}

\* a session whose plan binds resolv.conf onto run/resolvconf/resolv.conf
C26_Witness ==
    /\ HasDefaultPlan
    /\ \E k \in ResolvBinds(mount_kwargs) :
           mount_kwargs[k].target = "/r/run/resolvconf/resolv.conf"
    /\ ~\E k \in DOMAIN log : IsResolvWarning(log[k])

\* a session whose plan binds no resolv.conf and that logged the warning
C26_WitnessWarned ==
    /\ HasDefaultPlan
    /\ ResolvBinds(mount_kwargs) = {}
    /\ \E k \in DOMAIN log : IsResolvWarning(log[k])


(* ------------------------------ elevation ----------------------------- *)

\* the elevation of command k in a session of `user` that gets the same
\* calls: the cp of run_script takes the sudo argument of the call, every
\* other command the session's own setting
ElevationFor(user, k) ==
    IF IsScriptCp(cmds[k]) THEN cmds[k].sudo ELSE session_sudo(user)

\* the sudo argument of the run_script call that issued the cp at k, read
\* off the userspec the body passes along with it
CallSudo(k) ==
    {kw.sudo : kw \in {c \in CallKwargs :
        k + 1 \in DOMAIN cmds /\ cmds[k + 1].prog = "chroot"
            => cmds[k + 1].userspec
                 = (IF c.userspec # <<>> THEN c.userspec ELSE userspec)}}

\* C27 as stated: the elevation of every command a session issues is the
\* same whoever the invoking user is
C27_ElevationRegardlessOfUser ==
    \A k \in DOMAIN cmds : \A u \in Users : cmds[k].sudo = ElevationFor(u, k)

\* C27, amended: the session's own commands (staging and removal of the
\* emulator, mounts, unmounts, chroot) are elevated exactly when the
\* invoking user is not root; only the cp that stages a script follows the
\* sudo argument of its run_script call
C27_ElevationFollowsUser ==
    \A k \in DOMAIN cmds :
        IF IsScriptCp(cmds[k])
        THEN cmds[k].sudo \in CallSudo(k)
        ELSE cmds[k].sudo = (host.user # "root")

\* a non-root user's session has mounted elevated and staged a script
\* without elevation, as the call chose
C27_Witness ==
    /\ host.user = "builder"
    /\ \E k \in DOMAIN cmds : cmds[k].prog = "mount" /\ cmds[k].sudo
    /\ \E k \in DOMAIN cmds : cmds[k].prog = "chroot" /\ cmds[k].sudo
    /\ \E k \in DOMAIN cmds : IsScriptCp(cmds[k]) /\ ~cmds[k].sudo


(* ------------------------- additional_mounts -------------------------- *)

\* the mounts a caller passes as additional_mounts, and the lists of them:
\* each mount at most once, in either order
AdditionalMounts == {MountKw("/src", "/r/mnt/x", None, {"bind"}),
                     MountKw("/out", "/r/mnt/y", None, {"bind"})}
AdditionalLists ==
    {s \in SeqsUpTo(AdditionalMounts, Cardinality(AdditionalMounts)) :
        Cardinality(Range(s)) = Len(s)}

\* the base plans: the default plan of a rootfs with etc/resolv.conf, or
\* one mount of the caller's
BasePlans == {<<>>} \cup {<<m>> : m \in UserMounts}

\* a session whose constructor has returned, called by root with
\* additional_mounts, on a host that starts every process
InitExtra ==
    /\ spawn_fails = FALSE
    /\ \E h \in CtorCalls, mk \in BasePlans, extra \in AdditionalLists :
          /\ init_error(h) = "None"
          /\ h.qemu = None
          /\ h.userspec = <<>>
          /\ h.user = "root"
          /\ host = h @@ [additional_mounts |-> extra]
          /\ mount_kwargs = plan_of(mk, extra, FALSE, TRUE, FALSE)
    /\ pc = "enter"
    /\ qemu = resolved_qemu(host)
    /\ userspec = host.userspec
    /\ sudo = session_sudo(host.user)
    /\ _qemu_copied = False
    /\ _mounted = <<>>
    /\ target_isfile = FALSE
    /\ i = 0
    /\ todo = <<>>
    /\ exc = "None"
    /\ exit_from = "none"
    /\ exit_state = "notrun"
    /\ outcome = "pending"
    /\ log = <<>>
    /\ cmds = <<>>
    /\ call_results = <<>>
    /\ vm_pc = "new"
    /\ vm_self = NoVm
    /\ vm_exc = "None"
    /\ vm_outcome = "pending"
    /\ vm_log = <<>>
    /\ vm_cmds = <<>>
    /\ pr_pc = "new"
    /\ pr_self = NoProot
    /\ _scripts = <<>>
    /\ pr_exc = "None"
    /\ pr_outcome = "pending"
    /\ pr_log = <<>>
    /\ pr_ops = <<>>
    /\ main_pc = "new"
    /\ main_args = NoArgs
    /\ main_i = 0
    /\ main_result = "pending"
    /\ kb_pc = "new"
    /\ kb_args = NoArgs
    /\ kb_cmds = <<>>
    /\ kb_result = "pending"

\* the session from __enter__ to the end of __exit__
NextSession ==
    \/ EnterStage
    \/ EnterMount
    \/ EnterReturn
    \/ EnterInterrupt
    \/ EnterExcept
    \/ Body
    \/ ExitBegin
    \/ ExitUmount
    \/ ExitReturn

SpecExtra == InitExtra /\ [][NextSession]_vars

AdditionalTargets == {m.target : m \in AdditionalMounts}
IsAdditional(m) == m.target \in AdditionalTargets
IsBase(m) == m.target \notin AdditionalTargets

\* the targets of the additional mounts that were mounted, in that order
AdditionalMounted ==
    TargetsOf(SelectSeq(cmds, LAMBDA c : IsMountOk(c) /\ IsAdditional(c)))

\* C28: the plan of the session is the base plan followed by the
\* additional mounts in the order given, and the mount commands follow the
\* plan, so every additional mount is issued after every base mount and the
\* emulator's; at exit every unmount of an additional mount comes before
\* every unmount of a base entry or of the emulator, and the additional
\* mounts are unmounted in the reverse of the order they were mounted in
C28_AdditionalMountsLastInFirstOut ==
    /\ mount_kwargs = SelectSeq(mount_kwargs, IsBase) \o host.additional_mounts
    /\ IsPrefix(TargetsOf(SelectSeq(cmds, IsPlanMount)),
                TargetsOf(mount_kwargs))
    /\ \A a, b \in DOMAIN cmds :
          /\ cmds[a].prog = "mount" /\ IsAdditional(cmds[a])
             /\ cmds[b].prog = "mount" /\ IsBase(cmds[b]) => b < a
          /\ IsUmount(cmds[a]) /\ IsAdditional(cmds[a])
             /\ IsUmount(cmds[b]) /\ IsBase(cmds[b]) => a < b
    /\ IsPrefix(SelectSeq(Unmounted, LAMBDA t : t \in AdditionalTargets),
                Reverse(AdditionalMounted))
    /\ exit_state = "returned" =>
          SelectSeq(Unmounted, LAMBDA t : t \in AdditionalTargets)
            = Reverse(AdditionalMounted)

\* a session with the default plan and two additional mounts has mounted
\* everything and unmounted it again
C28_Witness ==
    /\ exit_state = "returned"
    /\ Len(host.additional_mounts) = 2
    /\ Len(AdditionalMounted) = 2
    /\ Len(MountedOk) >= 8
    /\ Len(Unmounted) = Len(MountedOk)


(* ------------------------- chroot.py command line --------------------- *)

\* what the command line gives for --arch and --qemu; None: option absent
CommandLines == [arch : {None, ARCH}, qemu : QemuPaths \cup {None}]

\* cli_main and cli_common: argparse fills in the default of --arch, --qemu
\* has none, and the options that are None are dropped
cli_common(line) ==
    LET parsed == [arch |-> IF line.arch = None THEN ARCH ELSE line.arch,
                   qemu |-> line.qemu]
    IN  [k \in {n \in DOMAIN parsed : parsed[n] # None} |-> parsed[k]]

\* main(): the arch and qemu it hands to the runner, None when not passed
main(kwargs) ==
    [arch |-> IF "arch" \in DOMAIN kwargs THEN kwargs.arch ELSE None,
     qemu |-> IF "qemu" \in DOMAIN kwargs THEN kwargs.qemu ELSE None]

\* the constructor call was made by main for a command line with --qemu
FromCliWithQemu(h) ==
    \E line \in CommandLines :
        /\ line.qemu # None
        /\ h.arch = main(cli_common(line)).arch
        /\ h.qemu = main(cli_common(line)).qemu

\* C29: a session that chroot.main constructs for a command line with
\* --qemu, on a host where the rootfs, the emulator and the userspec pass
\* every check, is entered, and the first command it issues stages the
\* emulator the command line named
C29_CustomEmulatorStaged ==
    host.called /\ FromCliWithQemu(host) /\ Preconditions(host) =>
        /\ pc # "init_raised"
        /\ qemu = host.qemu
        /\ cmds # <<>> => IsStaging(cmds[1]) /\ cmds[1].source = host.qemu


(* ------------------------- a session object used again ---------------- *)

\* `with runner:` once more on the same object, after the previous with
\* statement is over: __enter__ runs again on the attributes as __exit__
\* left them
Reuse ==
    /\ pc = "done"
    /\ Count(cmds, IsStaging) < MaxSessions
    /\ pc' = "enter"
    /\ i' = 0
    /\ todo' = <<>>
    /\ exc' = "None"
    /\ exit_from' = "none"
    /\ exit_state' = "notrun"
    /\ outcome' = "pending"
    /\ UNCHANGED <<host, spawn_fails, qemu, mount_kwargs, userspec, sudo,
                   _qemu_copied, _mounted, target_isfile, log, cmds>>
    /\ UNCHANGED <<call_results, vmvars, prvars, mainvars, kbvars>>

NextReuse ==
    \/ EnterStage
    \/ EnterMount
    \/ EnterReturn
    \/ EnterInterrupt
    \/ EnterExcept
    \/ Body
    \/ ExitBegin
    \/ ExitUmount
    \/ ExitReturn
    \/ Reuse

SpecReuse == InitRun /\ [][NextReuse]_vars

\* the emulator is recorded as bind-mounted, as copied
RecordedBind == emulator_target(qemu) \in Range(_mounted)
RecordedCopy == _qemu_copied # False

\* C30: at no point, the session object used for several with statements
\* included, is the emulator recorded both as bind-mounted and as copied,
\* and no teardown issues both the removal of the copy and the unmount of
\* the emulator (a removal and a later unmount of the emulator always have
\* a staging, that is another __enter__, between them)
C30_OneStagingRecord ==
    /\ ~(RecordedBind /\ RecordedCopy)
    /\ \A a, b \in DOMAIN cmds :
          /\ a < b
          /\ IsRm(cmds[a])
          /\ IsUmount(cmds[b]) /\ cmds[b].target \in EmuTargets
          => \E m \in (a + 1)..(b - 1) : IsStaging(cmds[m])


(* ------------------------- QemuRunner.run_script steps ---------------- *)

\* the chroot commands that invoke a staged script
IsScriptExec(c) ==
    /\ c.prog = "chroot"
    /\ \E script \in Scripts : c.command = <<dest_in_chroot(script)>>

\* the in-sandbox path of the copy that the cp command c made
InSandbox(c) == dest_in_chroot(c.source)

\* a copy of a script that did not exit 0 is the last command of the body:
\* the script is not invoked and CalledProcessError is raised
CopyFailureRaises ==
    \A k \in DOMAIN cmds :
        IsScriptCp(cmds[k]) /\ cmds[k].rc # "ok" =>
            /\ k < Len(cmds) => ~IsScriptExec(cmds[k + 1])
            /\ pc # "body"
            /\ exc = "CalledProcessError"

\* the steps of run_script as the code issues them: every invocation of a
\* script directly follows the copy of that script into <rootfs>/tmp, which
\* had exited 0
RunScriptCopyThenInvoke ==
    /\ \A k \in DOMAIN cmds :
          IsScriptExec(cmds[k]) =>
              /\ k > 1
              /\ IsScriptCp(cmds[k - 1])
              /\ cmds[k - 1].rc = "ok"
              /\ cmds[k - 1].target = dest(cmds[k - 1].source)
              /\ cmds[k].command = <<InSandbox(cmds[k - 1])>>
    /\ CopyFailureRaises

\* C31: run_script copies the script into <rootfs>/tmp, marks the copy
\* executable and then invokes it by its path under /tmp through chroot:
\* every invocation of a script has the chmod of its copy directly before
\* it and the copy before that; a copy that exits non-zero raises and the
\* script is not invoked
C31_CopyChmodInvoke ==
    /\ CopyFailureRaises
    /\ \A k \in DOMAIN cmds :
          IsScriptExec(cmds[k]) =>
              /\ k > 2
              /\ cmds[k - 1].prog = "chmod"
              /\ IsScriptCp(cmds[k - 2])
              /\ cmds[k - 1].target = cmds[k - 2].target


(* ------------------------- emulator not found ------------------------- *)

\* the constructor was asked to find the emulator of `arch` on the search
\* path of a host that has none, with a rootfs that passes its checks
EmulatorNotOnPath(h) ==
    /\ h.called
    /\ h.rootfs_exists /\ h.rootfs_isdir
    /\ h.arch # None /\ h.qemu = None
    /\ which(h.arch, h.which_found) = None

\* C32: when no emulator for the target architecture is on the host's
\* search path, the constructor raises FileNotFoundError, the failure of the
\* emulator check, and the session is never entered
C32_EmulatorNotFound ==
    EmulatorNotOnPath(host) =>
        /\ pc = "init_raised"
        /\ outcome = "FileNotFoundError"


(* ------------------------- exceptions of the body --------------------- *)

\* the body of the with statement raised: __exit__ was called by the with
\* statement with an exception in flight
BodyRaised == exit_from = "with" /\ exc # "None"

\* the teardown is complete: a copied emulator has had its removal issued,
\* before any unmount, and everything mounted was unmounted in reverse
TeardownComplete ==
    /\ exit_state = "returned"
    /\ Unmounted = Reverse(MountedOk)
    /\ _qemu_copied # False =>
          /\ Count(cmds, IsRm) = 1
          /\ \A a, b \in DOMAIN cmds :
                IsRm(cmds[a]) /\ IsUmount(cmds[b]) => a < b

\* C33: when the body of a session raises, an error or KeyboardInterrupt,
\* the caller observes nothing before the teardown is complete, then
\* observes that same exception, and never a normal completion
C33_TeardownThenPropagate ==
    BodyRaised =>
        /\ outcome # "returned"
        /\ outcome # "pending" => TeardownComplete /\ outcome = exc
        /\ pc = "done" => outcome = exc

\* the body was interrupted in a session that had copied the emulator and
\* mounted two targets; all of it was torn down and the interrupt reached
\* the caller
C33_Witness ==
    /\ BodyRaised
    /\ exc = "KeyboardInterrupt"
    /\ outcome = "KeyboardInterrupt"
    /\ Count(cmds, IsRm) = 1
    /\ Len(Unmounted) >= 2

\* the body failed with an ordinary error and the caller got it
C33_WitnessError ==
    /\ BodyRaised
    /\ outcome = "RuntimeError"
    /\ Len(Unmounted) >= 2


(* ------------------------------ tib main ------------------------------ *)

\* paths inside the VM (__main__.py:25-36) and the scripts of the package
L4T_PATH == "/home/ubuntu/Linux_for_Tegra"
IMAGE_SCRIPT == "/home/ubuntu/Linux_for_Tegra/tools/jetson-disk-image-creator.sh"
APPLY_BINARIES == "/home/ubuntu/Linux_for_Tegra/apply_binaries.sh"
ROOTFS_PATH == "/home/ubuntu/Linux_for_Tegra/rootfs"
KERNEL_PY == "/opt/tib/kernel.py"
CHROOT_PY == "/opt/tib/chroot.py"
PATCH_EXTLINUX_PY == "/opt/tib/patch_extlinux.py"
IMAGE_OUT == "/home/ubuntu/sdcard.img"
KERNEL_PATCH_DIR == "/tmp/kernel_patches"
KERNEL_CONF_DIR == "/tmp/kernel_configs"

\* the calls of main of the model: a stock image, and one customisation
\* or one missing input file at a time, for either board
StockCall ==
    [scripts |-> <<>>, chroot_scripts |-> <<>>, kernel_patches |-> <<>>,
     enter_chroot |-> FALSE, menuconfig |-> FALSE, save_kconfig |-> None,
     load_kconfig |-> None, verbose |-> 0, out |-> "/host/sdcard.img",
     no_cleanup |-> FALSE, board |-> "nano", revision |-> "b00",
     missing |-> {}, multipass |-> TRUE, called |-> TRUE]
Customised ==
    {StockCall,
     [StockCall EXCEPT !.scripts = <<"/host/user.sh">>, !.no_cleanup = TRUE],
     [StockCall EXCEPT !.chroot_scripts = <<"/host/chroot.sh">>,
                       !.enter_chroot = TRUE],
     [StockCall EXCEPT !.kernel_patches = <<"/host/a.patch">>],
     [StockCall EXCEPT !.menuconfig = TRUE,
                       !.save_kconfig = "/host/kconfig_out"],
     [StockCall EXCEPT !.menuconfig = TRUE,
                       !.load_kconfig = "/host/kconfig_in"],
     [StockCall EXCEPT !.save_kconfig = "/host/kconfig_out"]}
InputFiles(a) ==
    Range(a.scripts) \cup Range(a.chroot_scripts) \cup Range(a.kernel_patches)
        \cup ({a.load_kconfig} \ {None})
MainCalls ==
    {[a EXCEPT !.board = b] : a \in Customised, b \in {"nano", "nx"}}
    \cup UNION {{[a EXCEPT !.missing = {f}] : f \in InputFiles(a)} :
                    a \in Customised}
    \cup {[StockCall EXCEPT !.multipass = FALSE]}

\* a fail-fast check that looks at the scripts only
input_error_scripts_only(a) ==
    IF Range(a.scripts) \cap a.missing # {} THEN "FileNotFoundError" ELSE "None"

\* the fail-fast check of the input files (__main__.py:70-82): the
\* exception it raises, "None" when every file is there; the raise for a
\* missing kernel config names the loop variable `script`, which is unbound
\* when the loop above it had nothing to check
input_error(a) ==
    LET checked_first == a.scripts \o a.chroot_scripts \o a.kernel_patches
    IN  IF Range(checked_first) \cap a.missing # {} THEN "FileNotFoundError"
        ELSE IF a.load_kconfig # None /\ a.load_kconfig \in a.missing
        THEN IF checked_first = <<>> THEN "UnboundLocalError"
             ELSE "FileNotFoundError"
        ELSE "None"

\* whether main builds a kernel
builds_kernel(a) == a.kernel_patches # <<>> \/ a.menuconfig

\* the scripts main runs first, with their arguments (__main__.py:84-116)
ScriptRun(script, args) == [script |-> script, args |-> args, kwargs |-> {}]
main_scripts(a) ==
    << ScriptRun("/opt/tib/install_deps.sh", <<>>),
       ScriptRun("/opt/tib/utils.py", <<>>),
       ScriptRun("/opt/tib/download_bsp.sh", <<a.board>>),
       ScriptRun("/opt/tib/download_rootfs.sh",
                 <<a.board, IF builds_kernel(a) THEN "--install-key"
                            ELSE "--no-key">>),
       ScriptRun("/opt/tib/download_public_sources.sh", <<a.board>>),
       ScriptRun("/opt/tib/toolchain.py",
                 IF a.verbose # 0 THEN <<"--verbose">> ELSE <<>>) >>
    \o [k \in DOMAIN a.scripts |-> ScriptRun(a.scripts[k], <<>>)]

\* f"{KERNEL_PATCH_DIR}/{os.path.basename(patch)}"
inner_patch(patch) == "/tmp/kernel_patches/a.patch"

\* the arguments of the kernel build script (__main__.py:128-156)
kernel_args(a) ==
    (IF a.kernel_patches # <<>>
     THEN <<"--patches">> \o [k \in DOMAIN a.kernel_patches |->
                                 inner_patch(a.kernel_patches[k])]
     ELSE <<>>)
    \o (IF a.verbose # 0 THEN <<"--verbose">> ELSE <<>>)
    \o (IF a.load_kconfig # None
        THEN <<"--load-kconfig", "/tmp/kernel_configs/kconfig_in">> ELSE <<>>)
    \o (IF a.save_kconfig # None
        THEN <<"--save-kconfig", "/tmp/kernel_configs/kconfig_out">> ELSE <<>>)
    \o (IF a.menuconfig THEN <<"--menuconfig">> ELSE <<>>)

\* the stages of the body of main's with statement, in program order
Stages == <<"scripts", "patches", "kconfig", "build", "save_kconfig",
            "apply_binaries", "extlinux", "chroot_scripts", "enter_chroot",
            "image", "transfer", "end">>

\* whether main, called with a, goes through a stage
applies(stage, a) ==
    CASE stage = "patches" -> a.kernel_patches # <<>>
      [] stage = "kconfig" ->
            builds_kernel(a) /\ (a.load_kconfig # None \/ a.save_kconfig # None)
      [] stage = "build" -> builds_kernel(a)
      [] stage = "save_kconfig" -> builds_kernel(a) /\ a.save_kconfig # None
      [] stage = "extlinux" -> a.kernel_patches # <<>> /\ a.board = "nano"
      [] stage = "chroot_scripts" -> a.chroot_scripts # <<>>
      [] stage = "enter_chroot" -> a.enter_chroot
      [] OTHER -> TRUE

StageIndex(stage) == CHOOSE k \in DOMAIN Stages : Stages[k] = stage

\* the stage main goes through after `stage`
next_stage(stage, a) ==
    LET later == {k \in DOMAIN Stages :
                    k > StageIndex(stage) /\ applies(Stages[k], a)}
    IN  Stages[CHOOSE k \in later : \A m \in later : k <= m]

\* a call sequence whose last command nobody checks
raised_or_status_unchecked(r) == r.raised

\* the exception a call sequence ends with when its last command is
\* checked with check_returncode()
raised_or_status(r) ==
    IF r.raised # "None" THEN r.raised ELSE raised_by_last(r.issued)

\* main up to the with statement: the check of the input files, then the
\* constructor of the runner
MainBegin ==
    /\ main_pc = "new"
    /\ vm_pc = "new"
    /\ \E a \in MainCalls :
        /\ main_args' = a
        /\ IF input_error(a) # "None"
           THEN /\ main_pc' = "done"
                /\ main_result' = input_error(a)
                /\ UNCHANGED <<vm_pc, vm_self>>
           ELSE IF find_multipass(a.multipass) = "FileNotFoundError"
           THEN /\ main_pc' = "done"
                /\ main_result' = "FileNotFoundError"
                /\ UNCHANGED <<vm_pc, vm_self>>
           ELSE /\ main_pc' = "scripts"
                /\ vm_pc' = "enter"
                /\ vm_self' = [_name |-> "tib", _verbose |-> a.verbose,
                               no_cleanup |-> a.no_cleanup]
                /\ UNCHANGED main_result
    /\ UNCHANGED <<main_i, vm_exc, vm_outcome, vm_log, vm_cmds>>
    /\ UNCHANGED <<pc, host, spawn_fails, qemu, mount_kwargs, userspec, sudo,
                   _qemu_copied, _mounted, target_isfile, i, todo, exc,
                   exit_from, exit_state, outcome, log, cmds, call_results>>
    /\ UNCHANGED <<prvars, kbvars>>

\* one statement of the body that issued `issued` and raised `raised`
\* ("None" when it went on to stage `next`, loop index `idx`)
MainStep(issued, raised, next, idx) ==
    /\ VmPossible(issued)
    /\ vm_cmds' = vm_cmds \o issued
    /\ IF raised = "None"
       THEN /\ main_pc' = next
            /\ main_i' = idx
            /\ UNCHANGED <<vm_pc, vm_exc>>
       ELSE /\ vm_exc' = raised
            /\ vm_pc' = "exit"
            /\ UNCHANGED <<main_pc, main_i>>
    /\ UNCHANGED <<main_args, main_result, vm_self, vm_outcome, vm_log>>
    /\ UNCHANGED <<pc, host, spawn_fails, qemu, mount_kwargs, userspec, sudo,
                   _qemu_copied, _mounted, target_isfile, i, todo, exc,
                   exit_from, exit_state, outcome, log, cmds, call_results>>
    /\ UNCHANGED <<prvars, kbvars>>

\* runner.run_script(...) with results rcs, then check_returncode() if
\* `check`
MainRunScript(call, check, next, idx) ==
    \E rcs \in [1..4 -> Results] :
        \E r \in {run_script(vm_self, vm_cmds, call, rcs)} :
            /\ \A k \in 1..4 : k > Len(r.issued) => rcs[k] = "ok"
            /\ MainStep(r.issued,
                        IF check THEN raised_or_status(r) ELSE r.raised,
                        next, idx)

\* runner.run(command).check_returncode()
MainRunChecked(command, next) ==
    \E rc \in Results :
        MainStep(<<vm_exec(vm_self, command, {}, rc)>>, checked(rc), next, 0)

\* for script, args in scripts: runner.run_script(script, *args) checked
MainScripts ==
    /\ vm_pc = "body"
    /\ main_pc = "scripts"
    /\ LET todo_ == main_scripts(main_args)
           last == main_i + 1 = Len(todo_)
       IN  MainRunScript(todo_[main_i + 1], TRUE,
                         IF last THEN next_stage("scripts", main_args)
                         ELSE "scripts",
                         IF last THEN 0 ELSE main_i + 1)

\* the patch directory and the transfer of every patch into it
MainPatches ==
    /\ vm_pc = "body"
    /\ main_pc = "patches"
    /\ \E rc \in Results, rcs \in [DOMAIN main_args.kernel_patches -> Results] :
        LET mk == vm_exec(vm_self, <<"mkdir", "-m", "700", KERNEL_PATCH_DIR>>,
                          {}, rc)
            tr == transfer_to(vm_self, main_args.kernel_patches,
                              inner_patch(main_args.kernel_patches[1]), rcs)
        IN  IF checked(rc) # "None"
            THEN /\ \A k \in DOMAIN rcs : rcs[k] = "ok"
                 /\ MainStep(<<mk>>, checked(rc), "patches", 0)
            ELSE /\ \A k \in DOMAIN rcs : k > Len(tr) => rcs[k] = "ok"
                 /\ MainStep(<<mk>> \o tr, raised_by_last(tr),
                             next_stage("patches", main_args), 0)

\* the kernel config directory, and the transfer of a config to load
MainKconfig ==
    /\ vm_pc = "body"
    /\ main_pc = "kconfig"
    /\ \E rc \in Results, rc_tr \in Results :
        LET mk == vm_exec(vm_self, <<"mkdir", "-m", "700", KERNEL_CONF_DIR>>,
                          {}, rc)
            tr == IF main_args.load_kconfig # None
                  THEN transfer_to(vm_self, <<main_args.load_kconfig>>,
                                   "/tmp/kernel_configs/kconfig_in", <<rc_tr>>)
                  ELSE <<>>
        IN  IF checked(rc) # "None" \/ tr = <<>>
            THEN /\ rc_tr = "ok"
                 /\ MainStep(<<mk>>, checked(rc),
                             next_stage("kconfig", main_args), 0)
            ELSE MainStep(<<mk>> \o tr, raised_by_last(tr),
                          next_stage("kconfig", main_args), 0)

\* runner.run_script(KERNEL_PY, *args).check_returncode()
MainBuild ==
    /\ vm_pc = "body"
    /\ main_pc = "build"
    /\ MainRunScript(ScriptRun(KERNEL_PY, kernel_args(main_args)), TRUE,
                     next_stage("build", main_args), 0)

\* runner.transfer_from(kernel_config_out, save_kconfig)
MainSaveKconfig ==
    /\ vm_pc = "body"
    /\ main_pc = "save_kconfig"
    /\ \E rc \in Results :
        MainStep(<<transfer_from(vm_self, <<"/tmp/kernel_configs/kconfig_out">>,
                                 main_args.save_kconfig, rc)>>,
                 checked(rc), next_stage("save_kconfig", main_args), 0)

\* sudo apply_binaries.sh [--target-overlay], checked
MainApplyBinaries ==
    /\ vm_pc = "body"
    /\ main_pc = "apply_binaries"
    /\ MainRunChecked(<<"sudo", APPLY_BINARIES>>
                        \o (IF builds_kernel(main_args)
                            THEN <<"--target-overlay">> ELSE <<>>),
                      next_stage("apply_binaries", main_args))

\* runner.run_script(PATCH_EXTLINUX_PY, ROOTFS_PATH, revision, sudo=True)
\* checked
MainExtlinux ==
    /\ vm_pc = "body"
    /\ main_pc = "extlinux"
    /\ MainRunScript([script |-> PATCH_EXTLINUX_PY,
                      args |-> <<ROOTFS_PATH, main_args.revision>>,
                      kwargs |-> {"sudo=True"}],
                     TRUE, next_stage("extlinux", main_args), 0)

\* for each chroot script: transfer it, chmod it (unchecked), and run
\* chroot.py on it, checked
MainChrootScripts ==
    /\ vm_pc = "body"
    /\ main_pc = "chroot_scripts"
    /\ \E rc_tr \in Results, rc_ch \in Results, rcs \in [1..4 -> Results] :
        LET script == main_args.chroot_scripts[main_i + 1]
            dest_script == script_dest(script)
            last == main_i + 1 = Len(main_args.chroot_scripts)
            next == IF last THEN next_stage("chroot_scripts", main_args)
                    ELSE "chroot_scripts"
            idx == IF last THEN 0 ELSE main_i + 1
            tr == transfer_to(vm_self, <<script>>, dest_script, <<rc_tr>>)
            ch == vm_exec(vm_self, <<"chmod", "+x", dest_script>>, {}, rc_ch)
        IN  \E r \in {run_script(vm_self, vm_cmds,
                                 ScriptRun(CHROOT_PY, <<ROOTFS_PATH, "--script",
                                                        dest_script>>), rcs)} :
            IF raised_by_last(tr) # "None"
            THEN /\ rc_ch = "ok" /\ \A k \in 1..4 : rcs[k] = "ok"
                 /\ MainStep(tr, raised_by_last(tr), next, idx)
            ELSE IF spawn_error(rc_ch) # "None"
            THEN /\ \A k \in 1..4 : rcs[k] = "ok"
                 /\ MainStep(tr \o <<ch>>, spawn_error(rc_ch), next, idx)
            ELSE /\ \A k \in 1..4 : k > Len(r.issued) => rcs[k] = "ok"
                 /\ MainStep(tr \o <<ch>> \o r.issued, raised_or_status(r),
                             next, idx)

\* runner.run_script(CHROOT_PY, ROOTFS_PATH, "--enter"), unchecked
MainEnterChroot ==
    /\ vm_pc = "body"
    /\ main_pc = "enter_chroot"
    /\ MainRunScript(ScriptRun(CHROOT_PY, <<ROOTFS_PATH, "--enter">>), FALSE,
                     next_stage("enter_chroot", main_args), 0)

\* the image assembly command (__main__.py:189-207), checked
image_command(a) ==
    <<"sudo", IMAGE_SCRIPT, "-o", IMAGE_OUT, "-b",
      IF a.board = "nano" THEN "jetson-nano" ELSE "jetson-xavier-nx-devkit">>
    \o (IF a.board = "nano" THEN <<"-r", "300">> ELSE <<>>)

MainImage ==
    /\ vm_pc = "body"
    /\ main_pc = "image"
    /\ MainRunChecked(image_command(main_args),
                      next_stage("image", main_args))

\* runner.transfer_from(IMAGE_OUT, out)
MainTransfer ==
    /\ vm_pc = "body"
    /\ main_pc = "transfer"
    /\ \E rc \in Results :
        MainStep(<<transfer_from(vm_self, <<IMAGE_OUT>>, main_args.out, rc)>>,
                 checked(rc), "end", 0)

\* the body of the with statement is over, or is cancelled between two of
\* its statements: the with statement calls __exit__
MainBodyEnds ==
    /\ vm_pc = "body"
    /\ \/ main_pc = "end" /\ vm_exc' = "None"
       \/ main_pc # "end" /\ vm_exc' = "KeyboardInterrupt"
    /\ vm_pc' = "exit"
    /\ UNCHANGED <<vm_self, vm_outcome, vm_log, vm_cmds>>
    /\ UNCHANGED mainvars
    /\ UNCHANGED <<pc, host, spawn_fails, qemu, mount_kwargs, userspec, sudo,
                   _qemu_copied, _mounted, target_isfile, i, todo, exc,
                   exit_from, exit_state, outcome, log, cmds, call_results>>
    /\ UNCHANGED <<prvars, kbvars>>

\* a main that returns 0 whatever left the with statement
main_returns_zero(vm_observed) == "0"

\* what main hands its caller once the with statement is over: 0 when the
\* statement completed, else the exception that left it
main_returns(vm_observed) ==
    IF vm_observed = "returned" THEN "0" ELSE vm_observed

\* `return 0`, or the exception of the with statement propagating
MainReturn ==
    /\ vm_pc = "done"
    /\ main_pc # "done"
    /\ main_pc' = "done"
    /\ main_result' = main_returns(vm_outcome)
    /\ UNCHANGED <<main_args, main_i>>
    /\ UNCHANGED vmvars
    /\ UNCHANGED <<pc, host, spawn_fails, qemu, mount_kwargs, userspec, sudo,
                   _qemu_copied, _mounted, target_isfile, i, todo, exc,
                   exit_from, exit_state, outcome, log, cmds, call_results>>
    /\ UNCHANGED <<prvars, kbvars>>

NextMain ==
    \/ MainBegin
    \/ VmEnter
    \/ VmEnterInterrupt
    \/ MainScripts
    \/ MainPatches
    \/ MainKconfig
    \/ MainBuild
    \/ MainSaveKconfig
    \/ MainApplyBinaries
    \/ MainExtlinux
    \/ MainChrootScripts
    \/ MainEnterChroot
    \/ MainImage
    \/ MainTransfer
    \/ MainBodyEnds
    \/ VmExit
    \/ MainReturn

SpecMain == Init /\ [][NextMain]_vars


(* ------------------------- claims about tib main ---------------------- *)

IsVmControl(c) == c.verb \in {"launch", "exec", "transfer", "mount", "delete"}

\* C34: when a user script, chroot script, kernel patch or kernel config
\* given to main does not exist, main raises before it constructs the
\* runner: no launch command, and no other command, is ever issued
C34_InputsCheckedFirst ==
    main_args.called /\ InputFiles(main_args) \cap main_args.missing # {} =>
        /\ main_pc = "done"
        /\ main_result \in {"FileNotFoundError", "UnboundLocalError"}
        /\ vm_pc = "new"
        /\ vm_cmds = <<>>

\* main was given a kernel patch that does not exist, and raised
C34_Witness ==
    /\ main_args.called
    /\ main_args.missing = {"/host/a.patch"}
    /\ main_result = "FileNotFoundError"

\* main was given a kernel config that does not exist, and raised
C34_WitnessKconfig ==
    /\ main_args.called
    /\ main_args.missing = {"/host/kconfig_in"}
    /\ main_result # "pending"


\* the execution of the staged kernel build script, and the transfer of the
\* config it saved to the host
IsKernelBuild(c) ==
    c.verb = "exec" /\ Len(c.argv) >= 3 /\ c.argv[3] = script_dest(KERNEL_PY)
IsConfigSave(c) ==
    /\ c.verb = "transfer"
    /\ c.dest.vm = None
    /\ \E k \in DOMAIN c.sources :
          c.sources[k].path = "/tmp/kernel_configs/kconfig_out"

\* C35: a transfer of the saved kernel config to the host is issued only
\* when a config output file was requested, goes to that file, and comes
\* after the kernel build script has exited with status 0; after a kernel
\* build that did not exit with status 0 no such transfer is issued
C35_ConfigSavedAfterBuild ==
    \A k \in DOMAIN vm_cmds :
        /\ IsConfigSave(vm_cmds[k]) =>
              /\ main_args.save_kconfig # None
              /\ vm_cmds[k].dest.path = main_args.save_kconfig
              /\ \E j \in 1..(k - 1) :
                    IsKernelBuild(vm_cmds[j]) /\ vm_cmds[j].rc = "ok"
        /\ IsKernelBuild(vm_cmds[k]) /\ vm_cmds[k].rc # "ok" =>
              \A j \in DOMAIN vm_cmds : j > k => ~IsConfigSave(vm_cmds[j])

\* the kernel was built and its config transferred to the host
C35_Witness ==
    \E k \in DOMAIN vm_cmds : IsConfigSave(vm_cmds[k]) /\ vm_cmds[k].rc = "ok"

\* the kernel build failed in a run that was to save the config, and main
\* is over
C35_WitnessFailed ==
    /\ main_pc = "done"
    /\ main_args.called /\ main_args.save_kconfig # None
    /\ \E k \in DOMAIN vm_cmds :
          IsKernelBuild(vm_cmds[k]) /\ vm_cmds[k].rc = "nonzero"


\* the commands on the staged extlinux patch script
IsExtlinuxChmod(c) ==
    c.verb = "exec" /\ c.argv = <<"tib", "--", "chmod", "+x",
                                   script_dest(PATCH_EXTLINUX_PY)>>
IsExtlinuxExec(c) ==
    c.verb = "exec" /\ Len(c.argv) >= 3
        /\ c.argv[3] = script_dest(PATCH_EXTLINUX_PY)
IsApplyBinaries(c) ==
    c.verb = "exec" /\ Len(c.argv) >= 4 /\ c.argv[4] = APPLY_BINARIES
IsImageAssembly(c) ==
    c.verb = "exec" /\ Len(c.argv) >= 4 /\ c.argv[4] = IMAGE_SCRIPT
IsChrootPy(c) ==
    c.verb = "exec" /\ Len(c.argv) >= 3 /\ c.argv[3] = script_dest(CHROOT_PY)

\* C36: with kernel patches for the nano, the extlinux patch script is
\* staged and then run inside the VM, elevated, after apply-binaries has
\* exited 0 and before any chroot script and the image assembly; when it
\* exits 0 the pipeline goes on: the call raises nothing of its own
C36_ExtlinuxPatched ==
    /\ vm_exc # "TypeError"
    /\ \A k \in DOMAIN vm_cmds :
          IsExtlinuxChmod(vm_cmds[k]) =>
              /\ k < Len(vm_cmds)
              /\ IsExtlinuxExec(vm_cmds[k + 1])
    /\ \A k \in DOMAIN vm_cmds :
          IsExtlinuxExec(vm_cmds[k]) =>
              /\ \E j \in 1..(k - 1) :
                    IsApplyBinaries(vm_cmds[j]) /\ vm_cmds[j].rc = "ok"
              /\ \A j \in 1..(k - 1) :
                    ~IsChrootPy(vm_cmds[j]) /\ ~IsImageAssembly(vm_cmds[j])


\* the execution of a staged script, and the transfer of the image
IsRunOf(c, script) ==
    c.verb = "exec" /\ Len(c.argv) >= 3 /\ c.argv[3] = script_dest(script)
IsChrootScriptRun(c) ==
    IsChrootPy(c) /\ Len(c.argv) >= 5 /\ c.argv[5] = "--script"
IsImageTransfer(c) ==
    /\ c.verb = "transfer"
    /\ c.dest.vm = None
    /\ \E k \in DOMAIN c.sources : c.sources[k].path = IMAGE_OUT

\* everything the image assembly waits for has exited 0 among the first n
\* commands: every provisioning script, the kernel build when there is
\* one, apply-binaries and one chroot.py run per chroot script, and none
\* of them has exited otherwise
ProvisionedBy(n) ==
    LET before == SubSeq(vm_cmds, 1, n)
        ok(Test(_)) == \E j \in DOMAIN before :
                           Test(before[j]) /\ before[j].rc = "ok"
        clean(Test(_)) == \A j \in DOMAIN before :
                              Test(before[j]) => before[j].rc = "ok"
        todo_ == main_scripts(main_args)
    IN  /\ \A m \in DOMAIN todo_ :
              /\ ok(LAMBDA c : IsRunOf(c, todo_[m].script))
              /\ clean(LAMBDA c : IsRunOf(c, todo_[m].script))
        /\ builds_kernel(main_args) => ok(IsKernelBuild)
        /\ clean(IsKernelBuild)
        /\ ok(IsApplyBinaries) /\ clean(IsApplyBinaries)
        /\ Count(before, LAMBDA c : IsChrootScriptRun(c) /\ c.rc = "ok")
              = Len(main_args.chroot_scripts)
        /\ clean(IsChrootScriptRun)

\* C37: the image assembly command is issued only after every
\* provisioning script, the kernel build when one is requested,
\* apply-binaries and every chroot script run have exited 0, and the
\* transfer of the image to the host only after the image assembly has
\* exited 0
C37_AssemblyAfterProvisioning ==
    \A k \in DOMAIN vm_cmds :
        /\ IsImageAssembly(vm_cmds[k]) => ProvisionedBy(k - 1)
        /\ IsImageTransfer(vm_cmds[k]) =>
              /\ k > 1
              /\ IsImageAssembly(vm_cmds[k - 1])
              /\ vm_cmds[k - 1].rc = "ok"
              /\ vm_cmds[k].dest.path = main_args.out

\* an image was assembled and transferred in a run with a kernel build
C37_Witness ==
    /\ main_args.called /\ builds_kernel(main_args)
    /\ \E k \in DOMAIN vm_cmds :
          IsImageTransfer(vm_cmds[k]) /\ vm_cmds[k].rc = "ok"

\* an image was assembled in a run with a chroot script
C37_WitnessChroot ==
    /\ main_args.called /\ main_args.chroot_scripts # <<>>
    /\ \E k \in DOMAIN vm_cmds : IsImageAssembly(vm_cmds[k])


\* the image was transferred to the host, the transfer exiting 0
ImageDelivered ==
    \E k \in DOMAIN vm_cmds :
        /\ IsImageTransfer(vm_cmds[k])
        /\ vm_cmds[k].dest.path = main_args.out
        /\ vm_cmds[k].rc = "ok"

\* C38 as stated: main returns 0 only if the transfer of the image to the
\* host output path has completed with status 0
C38_ZeroOnlyWithImage ==
    main_result = "0" => ImageDelivered

\* C38, amended: main returns 0 only if the image was transferred with
\* status 0 or the body was cancelled with KeyboardInterrupt, which
\* __exit__ suppresses; every other exception of the session is what
\* main's caller gets
C38_ZeroOnlyWithImageOrCancelled ==
    /\ main_result = "0" => ImageDelivered \/ vm_exc = "KeyboardInterrupt"
    /\ main_pc = "done" /\ vm_pc = "done"
          /\ vm_exc \notin {"None", "KeyboardInterrupt"}
          => main_result = vm_outcome /\ main_result # "0"

\* main returned 0 for a body that was cancelled before the image existed
C38_Witness ==
    /\ main_result = "0"
    /\ vm_exc = "KeyboardInterrupt"
    /\ ~ImageDelivered

\* main returned 0 after delivering the image
C38_WitnessDelivered ==
    /\ main_result = "0"
    /\ vm_exc = "None"
    /\ ImageDelivered


\* C39: in a run of main the delete command is issued at most once and is
\* the last command against the VM: once it is in the history no exec,
\* transfer, mount or other command is ever added
C39_DeleteLast ==
    [][/\ Count(vm_cmds', IsDelete) <= 1
       /\ Count(vm_cmds, IsDelete) > 0 => vm_cmds' = vm_cmds]_vars

\* main is over after the whole pipeline: the image was transferred and
\* the delete is the last command of the history
C39_Witness ==
    /\ main_pc = "done"
    /\ ImageDelivered
    /\ Count(vm_cmds, IsDelete) = 1
    /\ IsDelete(Last(vm_cmds))

\* main is over after a failed provisioning script: the delete follows the
\* failed exec and nothing follows the delete
C39_WitnessFailed ==
    /\ main_pc = "done"
    /\ main_result = "CalledProcessError"
    /\ Count(vm_cmds, IsDelete) = 1
    /\ IsDelete(Last(vm_cmds))
    /\ Len(vm_cmds) > 2


(* --------------------------- kernel.build ----------------------------- *)

KERNEL_TARBALL == "/opt/tib/Linux_for_Tegra/source/public/kernel_src.tbz2"
kernel_out == "/tmp/build/kernel_out"
build_rootfs == "/tmp/build/rootfs"
kernel_supplements == "/opt/tib/Linux_for_Tegra/kernel/kernel_supplements.tbz2"
make_common == <<"ARCH=arm64", "O=/tmp/build/kernel_out">>
make_targets == <<"Image", "dtbs", "modules">>

\* what kernel.build can be called with: the number of patches, a config
\* to load, the interactive menu, a file to save the used config to
KernelCalls ==
    [patches : 0..MaxPatches, load_kconfig : BOOLEAN, menuconfig : BOOLEAN,
     save_kconfig : BOOLEAN, called : {TRUE}]

\* an external command of the build and its result
kb_command(argv, rc) == [kind |-> "command", argv |-> argv, rc |-> rc]
\* a step of the build on the files of the VM (shutil.move)
kb_file(what) == [kind |-> "file", argv |-> <<what>>, rc |-> "ok"]

\* the results the VM can give the next command of the build
KbPossible(rc) ==
    /\ rc = "oserror" => spawn_fails
    /\ rc # "ok" => NFail(kb_cmds) < MaxFail

IsMake(c, target) ==
    c.kind = "command" /\ c.argv[1] = "make" /\ c.argv[Len(c.argv)] = target
IsQuiltPush(c) == c.kind = "command" /\ c.argv = <<"quilt", "push">>

\* one statement of build: what it adds to the history and what it raises;
\* a raise leaves build, whose TemporaryDirectory suppresses nothing
KbStep(added, raised, next) ==
    /\ kb_cmds' = kb_cmds \o added
    /\ IF raised = "None"
       THEN /\ kb_pc' = next
            /\ kb_result' = IF next = "done" THEN "returned" ELSE kb_result
       ELSE /\ kb_pc' = "done"
            /\ kb_result' = raised
    /\ UNCHANGED kb_args
    /\ UNCHANGED <<pc, host, spawn_fails, qemu, mount_kwargs, userspec, sudo,
                   _qemu_copied, _mounted, target_isfile, i, todo, exc,
                   exit_from, exit_state, outcome, log, cmds, call_results>>
    /\ UNCHANGED <<vmvars, prvars, mainvars>>

\* run(argv).check_returncode()
KbRunChecked(argv, next) ==
    \E rc \in Results :
        /\ KbPossible(rc)
        /\ KbStep(<<kb_command(argv, rc)>>, checked(rc), next)

\* run(argv), the CompletedProcess dropped
KbRunUnchecked(argv, next) ==
    \E rc \in Results :
        /\ KbPossible(rc)
        /\ KbStep(<<kb_command(argv, rc)>>, spawn_error(rc), next)

\* build is called
KbBegin ==
    /\ kb_pc = "new"
    /\ \E a \in KernelCalls : kb_args' = a
    /\ kb_pc' = "extract"
    /\ UNCHANGED <<kb_cmds, kb_result>>
    /\ UNCHANGED <<pc, host, spawn_fails, qemu, mount_kwargs, userspec, sudo,
                   _qemu_copied, _mounted, target_isfile, i, todo, exc,
                   exit_from, exit_state, outcome, log, cmds, call_results>>
    /\ UNCHANGED <<vmvars, prvars, mainvars>>

\* 0.25: extract the kernel sources
KbExtract ==
    /\ kb_pc = "extract"
    /\ KbRunChecked(<<"tar", "-I", "lbzip2", "-xf", KERNEL_TARBALL>>,
                    IF kb_args.patches > 0 THEN "patch" ELSE "config")

\* 0.5: for p in patches: patch(p), which ends with a checked quilt push
KbPatch ==
    /\ kb_pc = "patch"
    /\ KbRunChecked(<<"quilt", "push">>,
                    IF Count(kb_cmds, IsQuiltPush) + 1 = kb_args.patches
                    THEN "config" ELSE "patch")

\* 3: config(make_common, kernel_out, load_kconfig): with a config to load
\* os.path.join(kernel_source_path, ".config") is called with the default
\* None; else make tegra_defconfig, checked
KbConfig ==
    /\ kb_pc = "config"
    /\ LET next == IF kb_args.menuconfig THEN "menuconfig" ELSE "make"
       IN  IF kb_args.load_kconfig
           THEN KbStep(<<>>, "TypeError", next)
           ELSE KbRunChecked(<<"make">> \o make_common \o <<"tegra_defconfig">>,
                             next)

\* 3.5: make menuconfig, checked
KbMenuconfig ==
    /\ kb_pc = "menuconfig"
    /\ KbRunChecked(<<"make">> \o make_common \o <<"menuconfig">>, "make")

\* 4: make_kernel: the targets Image, dtbs and modules, each checked
KbMakeKernel ==
    /\ kb_pc = "make"
    /\ LET made == Cardinality({t \in DOMAIN make_targets :
                       \E k \in DOMAIN kb_cmds :
                           IsMake(kb_cmds[k], make_targets[t])})
       IN  KbRunChecked(<<"make">> \o make_common
                            \o <<"-jN", make_targets[made + 1]>>,
                        IF made + 1 = Len(make_targets)
                        THEN "replace_kernel" ELSE "make")

\* 5: replace_kernel: RuntimeError when the new Image is not there
KbReplaceKernel ==
    /\ kb_pc = "replace_kernel"
    /\ \E found \in BOOLEAN :
        IF found THEN KbStep(<<kb_file("move Image")>>, "None", "replace_dtb")
        ELSE KbStep(<<>>, "RuntimeError", "replace_dtb")

\* 6: replace_dtb: RuntimeError when the new dts folder is not there
KbReplaceDtb ==
    /\ kb_pc = "replace_dtb"
    /\ \E found \in BOOLEAN :
        IF found THEN KbStep(<<kb_file("move dts")>>, "None", "modules_install")
        ELSE KbStep(<<>>, "RuntimeError", "modules_install")

\* 7: make_modules_install: run(...) and nothing else
KbModulesInstall ==
    /\ kb_pc = "modules_install"
    /\ KbRunUnchecked(<<"make">> \o make_common
                          \o <<"modules_install", "INSTALL_MOD_STRIP=1",
                               "INSTALL_MOD_PATH=/tmp/build/rootfs">>,
                      "archive_modules")

\* 8: archive_modules: tar lib/modules of the temporary rootfs, checked
KbArchiveModules ==
    /\ kb_pc = "archive_modules"
    /\ KbRunChecked(<<"tar", "--owner", "0", "--group", "0", "-I", "lbzip2",
                      "-cf", kernel_supplements, "lib/modules">>,
                    "archive_kconfig")

\* 8.5: archive_kconfig: move the used config to save_kconfig, if given
KbArchiveKconfig ==
    /\ kb_pc = "archive_kconfig"
    /\ KbStep(IF kb_args.save_kconfig THEN <<kb_file("move .config")>>
              ELSE <<>>,
              "None", "done")

NextKernel ==
    \/ KbBegin
    \/ KbExtract
    \/ KbPatch
    \/ KbConfig
    \/ KbMenuconfig
    \/ KbMakeKernel
    \/ KbReplaceKernel
    \/ KbReplaceDtb
    \/ KbModulesInstall
    \/ KbArchiveModules
    \/ KbArchiveKconfig

SpecKernel == Init /\ [][NextKernel]_vars

IsModulesInstall(c) ==
    c.kind = "command" /\ c.argv[1] = "make" /\ c.argv[4] = "modules_install"
IsArchiveModules(c) ==
    /\ c.kind = "command" /\ c.argv[1] = "tar"
    /\ c.argv[Len(c.argv)] = "lib/modules"
IsConfigMove(c) == c.kind = "file" /\ c.argv = <<"move .config">>

\* step k of the build was started after commands that all exited 0
AfterSuccess(k) ==
    \A j \in 1..(k - 1) :
        kb_cmds[j].kind = "command" => kb_cmds[j].rc = "ok"

\* every step but those that follow modules_install is started only after
\* commands that all exited with status 0
KernelStepsChecked ==
    \A k \in DOMAIN kb_cmds :
        (\A j \in 1..(k - 1) : ~IsModulesInstall(kb_cmds[j]))
            => AfterSuccess(k)

\* C40: each step of the kernel build is started only if every preceding
\* command of the build exited with status 0; the modules are archived
\* and the used config is saved only after a modules_install that exited 0
C40_StepsAfterSuccess ==
    /\ \A k \in DOMAIN kb_cmds : AfterSuccess(k)
    /\ \A k \in DOMAIN kb_cmds :
          IsArchiveModules(kb_cmds[k]) \/ IsConfigMove(kb_cmds[k])
            => \E j \in 1..(k - 1) : /\ IsModulesInstall(kb_cmds[j])
                                     /\ kb_cmds[j].rc = "ok"

====
